---------------------------- MODULE Spec2Model ----------------------------
(***************************************************************************)
(* A model of the asynchronous JDWP client of xjvmdbg (src/jdwp/client.rs):*)
(* the handshake performed by JdwpClient::new, the reader task, and any    *)
(* number of concurrent send_request_with_timeout calls that share the     *)
(* packet-id counter, the correlation map and the write half.              *)
(***************************************************************************)
EXTENDS Integers, Sequences, FiniteSets, TLC

\* ------------------------------------------------------------------ bounds

\* Number of send_request_with_timeout calls issued on the client.
MaxCalls == 2

\* ------------------------------------------------------- program constants

\* A u32 is kept as <<high half, low half>>, each half modulo 2^16, so that the
\* counter has its full 32-bit width.
U16Mod == 65536

\* ReplyPacketHeader::get_length() / CommandPacketHeader::get_length().
HeaderLength == 11

\* The id of ReplyPacketHeader::default(), 0xFFFFFFFF.
DefaultId == <<U16Mod - 1, U16Mod - 1>>

\* The counter of a client on which 2^32 - 2 earlier send calls ran to completion.
CounterAfterEarlierSends == <<U16Mod - 1, U16Mod - 2>>

\* Length of the handshake buffer, [0u8; 14].
HandshakeLen == 14

\* "JDWP-Handshake" as bytes.
HANDSHAKE_STR == <<74, 68, 87, 80, 45, 72, 97, 110, 100, 115, 104, 97, 107, 101>>

Calls == 1 .. MaxCalls

VARIABLES
    state,       \* lifecycle of the client: New, HsWritten, Handshaken, Ready, Failed, Dropped
    newResult,   \* what JdwpClient::new returned: <<>> while running, else <<[kind, detail]>>
    buffer,      \* the bytes do_handshake read back
    reader,      \* the reader task: NotSpawned, Running, Stopped (after drain), Panicked
    packet_id,   \* the counter behind the packet_id mutex
    pending,     \* pending_requests: id -> the call whose Sender is stored
    closed,      \* calls whose Sender was dropped without a send
    pc,          \* position of each send call
    id,          \* the id each call obtained from next_packet_id
    chan,        \* per call: the packets accepted by its oneshot channel
    outcome,     \* per call: what it returned to its caller
    reply,       \* per call: the packet it returned, as a sequence of length <= 1
    wire,        \* the operations performed on the write half, in order
    lockOrder,   \* ids in the order their calls acquired the writer mutex
    late,        \* calls for whose id a reply was read after they had returned
    woken,       \* calls whose sink was drained by the failing reader
    registered,  \* calls that inserted their Sender into pending_requests
    cmd,         \* per call: the command method that issued it, "none" for a bare send
    result,      \* per call: what the command method returned, <<>> while it runs
    sizes,       \* JdwpClient::sizes: <<>> for None, <<s>> for Some(s)
    peer,        \* what the peer does with the connection: talking, silent, closed
    raw_classes, \* JavaClassContainerBuilder::raw_classes
    classes,     \* JavaClassContainerBuilder::classes: name -> the Rc stored under it
    objects,     \* the JavaClass values allocated so far; an Rc is an index into them
    stack,       \* the parse_class calls in progress, innermost last
    iter,        \* position of the loop of parse_classes
    lstate,      \* the linker: running, done, panicked, overflow
    attribute_infos, \* the raw attributes (Vec<AttributeInfo>) being resolved
    attributes,  \* the resolved attributes pushed so far
    astate,      \* attribute resolution: running, done, panicked
    input,       \* the bytes handed to JavaClassFile::read
    decoded,     \* what JavaClassFile::read did: <<>> before the call, else <<outcome>>
    args,        \* the arguments of the function being called, <<>> when none is
    ret,         \* what the call did: <<>> before it returns, else <<outcome>>
    code,        \* the code array handed to parse_instructions
    position,    \* the stream position of the cursor over code
    instructions, \* the instructions pushed so far
    pstate       \* parse_instructions: idle, running, done, failed

\* The variables of the client's send layer and reader task.
clientVars == <<state, newResult, buffer, reader, packet_id, pending, closed, pc, id, chan,
                outcome, reply, wire, lockOrder, late, woken, registered>>

\* The variables of the command layer built on send_request_with_timeout.
cmdVars == <<cmd, result, sizes>>

\* Everything the send layer and the reader task never touch.
\* The variables of the class linker.
linkVars == <<raw_classes, classes, objects, stack, iter, lstate>>

\* The variables of the class-file core.
attrVars == <<attribute_infos, attributes, astate>>
decVars == <<input, decoded>>
fnVars == <<args, ret>>
codeVars == <<code, position, instructions, pstate>>
fileVars == <<linkVars, attrVars, decVars, fnVars, codeVars>>

\* The variables of the JDWP client.
jdwpVars == <<clientVars, cmdVars, peer>>

restVars == <<cmdVars, peer, fileVars>>

vars == <<clientVars, restVars>>

hsVars == <<state, newResult, buffer>>
callVars == <<pc, id, outcome, reply>>

\* ------------------------------------------------------------- handshake

\* One UTF-8 encoded scalar at the head of s: the number of bytes it takes, 0 if invalid.
Cont(b) == b >= 128 /\ b <= 191

Utf8Width(s) ==
    LET b == s[1]
        n == Len(s)
    IN  IF b < 128 THEN 1
        ELSE IF b >= 194 /\ b <= 223
            THEN IF n >= 2 /\ Cont(s[2]) THEN 2 ELSE 0
        ELSE IF b = 224
            THEN IF n >= 3 /\ s[2] >= 160 /\ s[2] <= 191 /\ Cont(s[3]) THEN 3 ELSE 0
        ELSE IF b = 237
            THEN IF n >= 3 /\ s[2] >= 128 /\ s[2] <= 159 /\ Cont(s[3]) THEN 3 ELSE 0
        ELSE IF b >= 225 /\ b <= 239
            THEN IF n >= 3 /\ Cont(s[2]) /\ Cont(s[3]) THEN 3 ELSE 0
        ELSE IF b = 240
            THEN IF n >= 4 /\ s[2] >= 144 /\ s[2] <= 191 /\ Cont(s[3]) /\ Cont(s[4])
                 THEN 4 ELSE 0
        ELSE IF b >= 241 /\ b <= 243
            THEN IF n >= 4 /\ Cont(s[2]) /\ Cont(s[3]) /\ Cont(s[4]) THEN 4 ELSE 0
        ELSE IF b = 244
            THEN IF n >= 4 /\ s[2] >= 128 /\ s[2] <= 143 /\ Cont(s[3]) /\ Cont(s[4])
                 THEN 4 ELSE 0
        ELSE 0

RECURSIVE IsUtf8(_)
IsUtf8(s) ==
    IF s = <<>> THEN TRUE
    ELSE LET w == Utf8Width(s)
         IN  w > 0 /\ IsUtf8(SubSeq(s, w + 1, Len(s)))

\* Replace the bytes of s from position i on by the bytes of r.
Patch(s, i, r) ==
    [k \in 1 .. Len(s) |-> IF k >= i /\ k < i + Len(r) THEN r[k - i + 1] ELSE s[k]]

\* What the peer may send back during the handshake: the right string, "JDWP-NOPESORRY",
\* a wrong ASCII byte at the first or the last position, a string that differs only by a
\* two-byte character, bytes that are not UTF-8, and every short read (EOF after 0..13 bytes).
PeerHandshakes ==
    {HANDSHAKE_STR,
     <<74, 68, 87, 80, 45, 78, 79, 80, 69, 83, 79, 82, 82, 89>>,
     Patch(HANDSHAKE_STR, 1, <<106>>),
     Patch(HANDSHAKE_STR, 14, <<69>>),
     Patch(HANDSHAKE_STR, 13, <<195, 169>>),
     Patch(HANDSHAKE_STR, 14, <<255>>),
     Patch(HANDSHAKE_STR, 5, <<192, 128>>)}
    \cup {SubSeq(HANDSHAKE_STR, 1, n) : n \in 0 .. HandshakeLen - 1}

IoError(detail) == <<[kind |-> "IoError", detail |-> detail]>>
ParsingError(detail) == <<[kind |-> "ParsingError", detail |-> detail]>>

\* A handshake comparison that looks at the protocol name only.
HandshakeResultPrefixOnly(received) ==
    IF Len(received) < HandshakeLen THEN IoError("UnexpectedEof")
    ELSE IF ~IsUtf8(received) THEN IoError("InvalidData")
    ELSE IF SubSeq(received, 1, 4) # SubSeq(HANDSHAKE_STR, 1, 4)
        THEN ParsingError("InvalidHandshake")
    ELSE <<>>

\* do_handshake after the write: read_exact of 14 bytes, from_utf8, comparison.
\* <<>> stands for Ok(()).
HandshakeResult(received) ==
    IF Len(received) < HandshakeLen THEN IoError("UnexpectedEof")
    ELSE IF ~IsUtf8(received) THEN IoError("InvalidData")
    ELSE IF received # HANDSHAKE_STR THEN ParsingError("InvalidHandshake")
    ELSE <<>>

\* write_all(handshake_bytes) and flush: either may fail.
DoHandshakeWrite ==
    /\ state = "New"
    /\ \E ok \in BOOLEAN :
        IF ok
        THEN /\ state' = "HsWritten"
             /\ wire' = Append(wire, [id |-> <<0, 0>>, part |-> "handshake"])
             /\ UNCHANGED newResult
        ELSE /\ state' = "Failed"
             /\ newResult' = IoError("WriteFailed")
             /\ UNCHANGED wire
    /\ UNCHANGED <<buffer, reader, packet_id, pending, closed, pc, id, chan, outcome,
                   reply, lockOrder, late, woken, registered>>
    /\ UNCHANGED restVars

DoHandshakeRead ==
    /\ state = "HsWritten"
    /\ \E received \in PeerHandshakes :
        /\ buffer' = received
        /\ LET r == HandshakeResult(received)
           IN  IF r = <<>>
               THEN state' = "Handshaken" /\ UNCHANGED newResult
               ELSE state' = "Failed" /\ newResult' = r
    /\ UNCHANGED <<reader, packet_id, pending, closed, pc, id, chan, outcome, reply,
                   wire, lockOrder, late, woken, registered>>
    /\ UNCHANGED restVars

\* The reader task is spawned before the handshake.
CanSpawnEarly == state \in {"New", "Handshaken"}

\* JdwpClient::new reaches tokio::spawn only when do_handshake returned Ok.
CanSpawn == state = "Handshaken"

\* split, the three Arcs, tokio::spawn(reader_loop) and Ok(JdwpClient{..}).
SpawnReader ==
    /\ CanSpawn
    /\ state' = "Ready"
    /\ reader' = "Running"
    /\ newResult' = <<[kind |-> "Ok", detail |-> "JdwpClient"]>>
    /\ UNCHANGED <<buffer, packet_id, pending, closed, pc, id, chan, outcome, reply,
                   wire, lockOrder, late, woken, registered>>
    /\ UNCHANGED restVars

\* ------------------------------------------------------------ packet ids

\* u32::wrapping_add(1) on <<high, low>>.
WrappingAdd1(n) ==
    IF n[2] + 1 < U16Mod THEN <<n[1], n[2] + 1>>
    ELSE <<(n[1] + 1) % U16Mod, 0>>

\* A counter that stops at u32::MAX instead of wrapping (saturating_add).
NextIdSaturating(n) ==
    IF n = <<U16Mod - 1, U16Mod - 1>> THEN n ELSE WrappingAdd1(n)

\* next_packet_id: *id = id.wrapping_add(1).
NextId(n) == WrappingAdd1(n)

\* a < b on u32 values.
U32Less(a, b) == a[1] < b[1] \/ (a[1] = b[1] /\ a[2] < b[2])

\* An id that no call of the model is assigned: 0x80000000.
StrayId == <<U16Mod \div 2, 0>>

\* ---------------------------------------------------------- reply packets

\* ReplyPacketHeader::default() with an empty body.
DefaultPacket == [length |-> 0, id |-> DefaultId, error_code |-> 0, data |-> <<>>]

\* The error codes the peer puts into reply headers. The reader task and
\* send_request_with_timeout never look at the field.
ErrorCodes == {0}

\* What the peer may put into a reply header: the id of any call that has taken one
\* (answered or not, repeated or not) or an id that belongs to no call, an error code,
\* and a length field below or at the header length.
PeerPackets ==
    [length : {HeaderLength - 1, HeaderLength},
     id : {id[c] : c \in {d \in Calls : pc[d] # "idle"}} \cup {StrayId},
     error_code : ErrorCodes,
     data : {<<>>}]

\* ------------------------------------------------------- correlation map

\* HashMap::insert.
Insert(map, key, c) == [k \in DOMAIN map \cup {key} |-> IF k = key THEN c ELSE map[k]]

\* HashMap::remove.
Remove(map, key) == [k \in DOMAIN map \ {key} |-> map[k]]

\* The reader looks the sender up and leaves it in the map.
ReaderPeek(map, key) == map

\* reader_loop: pending.remove(&reply_packet.header.id).
ReaderRemove(map, key) == Remove(map, key)

\* The timeout branch returns without touching the map.
TimeoutKeep(map, key) == map

\* The timeout branch empties the map (pending.clear()).
TimeoutClear(map, key) == << >>

\* send_request_with_timeout, timeout branch: pending.remove(&id).
TimeoutRemove(map, key) == Remove(map, key)

\* A oneshot send succeeds while the receiver is alive: the call has not returned.
ReceiverAlive(c) == pc[c] # "done"

\* ----------------------------------------------------------- reader task

\* read_reply_packet returned Ok with one of pkts: remove the sender for the id, send the
\* packet on it.
ReaderDeliverOf(pkts) ==
    /\ reader = "Running"
    /\ \E pkt \in pkts :
        /\ pkt.length >= HeaderLength
        /\ late' = late \cup {c \in Calls : pc[c] = "done" /\ id[c] = pkt.id}
        /\ pending' = ReaderRemove(pending, pkt.id)
        /\ IF pkt.id \in DOMAIN pending /\ ReceiverAlive(pending[pkt.id])
           THEN chan' = [chan EXCEPT ![pending[pkt.id]] = Append(@, pkt)]
           ELSE UNCHANGED chan
    /\ UNCHANGED <<hsVars, reader, packet_id, closed, callVars, wire, lockOrder,
                   woken, registered>>
    /\ UNCHANGED restVars

ReaderDeliver == ReaderDeliverOf(PeerPackets)

\* read_reply_packet returned Err (read_exact failed on the header or on the body,
\* EOF included): drain the map, send a default packet on every sender, leave the loop.
ReaderFail ==
    /\ reader = "Running"
    /\ reader' = "Stopped"
    /\ pending' = << >>
    /\ woken' = woken \cup {pending[k] : k \in DOMAIN pending}
    /\ chan' = [c \in Calls |->
                  IF (\E k \in DOMAIN pending : pending[k] = c) /\ ReceiverAlive(c)
                  THEN Append(chan[c], DefaultPacket)
                  ELSE chan[c]]
    /\ UNCHANGED <<hsVars, packet_id, closed, callVars, wire, lockOrder,
                   late, registered>>
    /\ UNCHANGED restVars

\* A header whose length field is below 11: header.length as usize - 11 overflows
\* (a panic in a checked build, an allocation of nearly usize::MAX bytes, which
\* panics, otherwise). The task ends without touching the map.
ReaderPanic ==
    /\ reader = "Running"
    /\ \E pkt \in PeerPackets : pkt.length < HeaderLength
    /\ reader' = "Panicked"
    /\ UNCHANGED <<hsVars, packet_id, pending, closed, callVars, chan, wire, lockOrder,
                   late, woken, registered>>
    /\ UNCHANGED restVars

\* ------------------------------------------------------------ send calls

\* 2^32 - 2 send calls were issued and returned before the calls of the model: each took
\* the next id and had its entry removed from the map by its reply or by its timeout.
EarlierSendsCompleted ==
    /\ state = "Ready"
    /\ packet_id = <<0, 0>>
    /\ \A c \in Calls : pc[c] = "idle"
    /\ packet_id' = CounterAfterEarlierSends
    /\ UNCHANGED <<hsVars, reader, pending, closed, callVars, chan, wire, lockOrder,
                   late, woken, registered>>
    /\ UNCHANGED restVars

\* let id = self.next_packet_id().await
\* The calls are numbered in the order in which they take the packet_id mutex.
TakeId(c) ==
    /\ state = "Ready"
    /\ pc[c] = "idle"
    /\ \A d \in Calls : d < c => pc[d] # "idle"
    /\ packet_id' = NextId(packet_id)
    /\ id' = [id EXCEPT ![c] = NextId(packet_id)]
    /\ pc' = [pc EXCEPT ![c] = "gotid"]
    /\ UNCHANGED <<hsVars, reader, pending, closed, chan, outcome, reply, wire,
                   lockOrder, late, woken, registered>>

\* send_request_with_timeout called on its own.
NextPacketId(c) ==
    /\ TakeId(c)
    /\ UNCHANGED restVars

\* pending.insert(id, tx): an entry already stored under id is replaced, its sender dropped.
Register(c) ==
    /\ pc[c] = "gotid"
    /\ pending' = Insert(pending, id[c], c)
    /\ closed' = IF id[c] \in DOMAIN pending THEN closed \cup {pending[id[c]]} ELSE closed
    /\ registered' = registered \cup {c}
    /\ pc' = [pc EXCEPT ![c] = "registered"]
    /\ UNCHANGED <<hsVars, reader, packet_id, id, chan, outcome, reply, wire, lockOrder,
                   late, woken>>
    /\ UNCHANGED restVars

WriterPcs == {"locked", "hdr", "body"}

\* A write half that is not behind a mutex.
WriterFreeNoMutex == TRUE

\* The writer mutex is free.
WriterFree == \A c \in Calls : pc[c] \notin WriterPcs

\* The request is written as soon as its id is known.
ReadyToWriteUnregistered(c) == pc[c] \in {"gotid", "registered"}

\* The writer is locked after the sink was registered.
ReadyToWrite(c) == pc[c] = "registered"

\* let mut writer = self.writer.lock().await
AcquireWriter(c) ==
    /\ ReadyToWrite(c)
    /\ WriterFree
    /\ pc' = [pc EXCEPT ![c] = "locked"]
    /\ lockOrder' = Append(lockOrder, id[c])
    /\ UNCHANGED <<hsVars, reader, packet_id, pending, closed, id, chan, outcome, reply,
                   wire, late, woken, registered>>
    /\ UNCHANGED restVars

\* One step of write_request under the writer mutex: write_all(header), write_all(data),
\* flush. A write_all that fails leaves a prefix of its bytes, possibly none, on the wire
\* (part "partial"); the error is returned with `?`, which releases the mutex and leaves
\* the entry in the map.
WriteStep(c, from, part, to) ==
    /\ pc[c] = from
    /\ \E ok \in BOOLEAN :
        IF ok
        THEN /\ wire' = Append(wire, [id |-> id[c], part |-> part])
             /\ pc' = [pc EXCEPT ![c] = to]
             /\ UNCHANGED outcome
        ELSE /\ wire' = IF part # "flush"
                        THEN Append(wire, [id |-> id[c], part |-> "partial"])
                        ELSE wire
             /\ pc' = [pc EXCEPT ![c] = "done"]
             /\ outcome' = [outcome EXCEPT ![c] = "WriteFailed"]
    /\ UNCHANGED <<hsVars, reader, packet_id, pending, closed, id, chan, reply,
                   lockOrder, late, woken, registered>>
    /\ UNCHANGED restVars

WriteHeader(c) == WriteStep(c, "locked", "hdr", "hdr")
WriteBody(c) == WriteStep(c, "hdr", "body", "body")
Flush(c) == WriteStep(c, "body", "flush", "waiting")

\* timeout(timeout_duration, rx) completes with what the channel holds.
Receive(c) ==
    /\ pc[c] = "waiting"
    /\ \/ /\ chan[c] # <<>>
          /\ outcome' = [outcome EXCEPT ![c] = "Ok"]
          /\ reply' = [reply EXCEPT ![c] = <<chan[c][1]>>]
       \/ /\ chan[c] = <<>>
          /\ c \in closed
          /\ outcome' = [outcome EXCEPT ![c] = "ChannelClosed"]
          /\ UNCHANGED reply
    /\ pc' = [pc EXCEPT ![c] = "done"]
    /\ UNCHANGED <<hsVars, reader, packet_id, pending, closed, id, chan, wire, lockOrder,
                   late, woken, registered>>
    /\ UNCHANGED restVars

\* A deadline that never passes (Duration::MAX).
NoDeadline(c) ==
    /\ pc[c] = "waiting"
    /\ FALSE
    /\ UNCHANGED vars

\* The deadline passes while the channel is still empty.
TimeoutElapsed(c) ==
    /\ pc[c] = "waiting"
    /\ chan[c] = <<>>
    /\ c \notin closed
    /\ pc' = [pc EXCEPT ![c] = "elapsed"]
    /\ UNCHANGED <<hsVars, reader, packet_id, pending, closed, id, chan, outcome, reply,
                   wire, lockOrder, late, woken, registered>>
    /\ UNCHANGED restVars

\* Timeout branch: lock the map, remove the id, return the TimedOut error.
TimeoutCleanup(c) ==
    /\ pc[c] = "elapsed"
    /\ pending' = TimeoutRemove(pending, id[c])
    /\ outcome' = [outcome EXCEPT ![c] = "TimedOut"]
    /\ pc' = [pc EXCEPT ![c] = "done"]
    /\ UNCHANGED <<hsVars, reader, packet_id, closed, id, chan, reply, wire, lockOrder,
                   late, woken, registered>>
    /\ UNCHANGED restVars

\* -------------------------------------------------------------- Init

ClientInit ==
    /\ state = "New"
    /\ newResult = <<>>
    /\ buffer = <<>>
    /\ reader = "NotSpawned"
    /\ packet_id = <<0, 0>>
    /\ pending = << >>
    /\ closed = {}
    /\ pc = [c \in Calls |-> "idle"]
    /\ id = [c \in Calls |-> <<0, 0>>]
    /\ chan = [c \in Calls |-> <<>>]
    /\ outcome = [c \in Calls |-> "none"]
    /\ reply = [c \in Calls |-> <<>>]
    /\ wire = <<>>
    /\ lockOrder = <<>>
    /\ late = {}
    /\ woken = {}
    /\ registered = {}

\* JdwpClient { .., sizes: None } and no command method called yet.
CmdInit ==
    /\ cmd = [c \in Calls |-> "none"]
    /\ result = [c \in Calls |-> <<>>]
    /\ sizes = <<>>

\* The peer has accepted the connection.
PeerInit == peer = "talking"

\* JavaClassContainerBuilder::new(&vec![]): nothing to link.
LinkIdle ==
    /\ raw_classes = <<>>
    /\ classes = << >>
    /\ objects = <<>>
    /\ stack = <<>>
    /\ iter = 1
    /\ lstate = "running"

\* No class file is being processed.
AttrIdle ==
    /\ attribute_infos = <<>>
    /\ attributes = <<>>
    /\ astate = "done"

DecIdle ==
    /\ input = <<>>
    /\ decoded = <<>>

FnIdle ==
    /\ args = <<>>
    /\ ret = <<>>

CodeIdle ==
    /\ code = <<>>
    /\ position = 0
    /\ instructions = <<>>
    /\ pstate = "idle"

FileIdle == LinkIdle /\ AttrIdle /\ DecIdle /\ FnIdle /\ CodeIdle

Init ==
    /\ ClientInit
    /\ CmdInit
    /\ PeerInit
    /\ FileIdle

Next ==
    \/ DoHandshakeWrite
    \/ DoHandshakeRead
    \/ SpawnReader
    \/ ReaderDeliver
    \/ ReaderFail
    \/ ReaderPanic
    \/ \E c \in Calls : NextPacketId(c)
    \/ \E c \in Calls : Register(c)
    \/ \E c \in Calls : AcquireWriter(c)
    \/ \E c \in Calls : WriteHeader(c)
    \/ \E c \in Calls : WriteBody(c)
    \/ \E c \in Calls : Flush(c)
    \/ \E c \in Calls : Receive(c)
    \/ \E c \in Calls : TimeoutElapsed(c)
    \/ \E c \in Calls : TimeoutCleanup(c)

Spec == Init /\ [][Next]_vars

\* The steps of one send_request_with_timeout call after it took its id.
SendSteps(c) ==
    \/ Register(c)
    \/ AcquireWriter(c)
    \/ WriteHeader(c)
    \/ WriteBody(c)
    \/ Flush(c)
    \/ Receive(c)
    \/ TimeoutElapsed(c)
    \/ TimeoutCleanup(c)

\* The client under a runtime that keeps polling every call's future: the mutexes
\* are granted, every write completes or fails, and the timer of a waiting call
\* fires when nothing else completes the wait.  Nothing is assumed of the peer or
\* of the reader task.
SpecLive == Init /\ [][Next]_vars /\ \A c \in Calls : WF_vars(SendSteps(c))

\* The same client late in its life: the counter may be two increments before its wrap
\* when the calls of the model are made.
NextWrap ==
    \/ Next
    \/ EarlierSendsCompleted

SpecWrap == Init /\ [][NextWrap]_vars

\* --------------------------------------------------------- command layer

\* i32::read_options, big endian, on the four bytes of b from position p.
I32At(b, p) ==
    (IF b[p] >= 128 THEN b[p] - 256 ELSE b[p]) * 16777216
        + b[p + 1] * 65536 + b[p + 2] * 256 + b[p + 3]

\* The four bytes a peer writes for the i32 n.
I32Bytes(n) ==
    <<(n \div 16777216) % 256, (n \div 65536) % 256, (n \div 256) % 256, n % 256>>

\* The body of an IDSizes reply that carries the five widths w.
IdSizesBody(w) ==
    I32Bytes(w[1]) \o I32Bytes(w[2]) \o I32Bytes(w[3]) \o I32Bytes(w[4]) \o I32Bytes(w[5])

\* The bodies the peer puts into replies: nothing, IDSizes bodies with the usual widths,
\* with a width of 3, of 0 and a negative one, and AllClasses bodies with no class, with
\* one class whose id takes eight bytes, and with a negative class count.
PeerBodies ==
    {<<>>,
     IdSizesBody(<<8, 8, 8, 8, 8>>),
     IdSizesBody(<<8, 8, 8, 3, 8>>),
     IdSizesBody(<<0, 8, 8, 8, 8>>),
     IdSizesBody(<<8, -1, 8, 8, 8>>),
     I32Bytes(0),
     I32Bytes(1) \o <<1>> \o <<0, 0, 0, 0, 0, 0, 0, 42>> \o I32Bytes(0) \o I32Bytes(7),
     I32Bytes(-1)}

\* The ids the peer answers to: those of the calls that have taken one, and a stray one.
AnsweredIds == {id[c] : c \in {d \in Calls : pc[d] # "idle"}} \cup {StrayId}

\* A reply packet: the length field is that of the packet.
Packet(i, e, b) == [length |-> HeaderLength + Len(b), id |-> i, error_code |-> e, data |-> b]

\* The replies the peer sends to commands: the error code is 0, or 112 (VM_DEAD) with an
\* empty body or with a body that decodes.
CmdPackets ==
    {Packet(i, 0, b) : b \in PeerBodies, i \in AnsweredIds}
    \cup {Packet(i, 112, b) : b \in {<<>>, IdSizesBody(<<8, 8, 8, 8, 8>>)}, i \in AnsweredIds}

\* The replies of a peer that answers IDSizes commands only: a body that decodes, with
\* and without an error code, and an empty body.
PairPackets ==
    {Packet(i, 0, b) : b \in {<<>>, IdSizesBody(<<8, 8, 8, 8, 8>>)}, i \in AnsweredIds}
    \cup {Packet(i, 112, IdSizesBody(<<8, 8, 8, 8, 8>>)) : i \in AnsweredIds}

\* IdSizesReply::read_be: five i32. <<>> stands for the binrw error.
ReadIdSizesReply(data) ==
    IF Len(data) < 20 THEN <<>>
    ELSE <<[k \in 1 .. 5 |-> I32At(data, 4 * k - 3)]>>

\* u8::try_from(i32).
FitsU8(n) == n >= 0 /\ n <= 255

\* The ids widths get_id_sizes accepts, were it to follow VariableLengthId.
FitsIdWidth(n) == n \in {1, 2, 4, 8}

\* get_id_sizes keeps a width when try_into::<u8>() succeeds.
WidthAccepted(n) == FitsU8(n)

\* AllClassesReplyClass::read_options from position p: the type tag (1, 2 or 3), an id
\* of idSize bytes (1, 2, 4 or 8, an error otherwise), a JdwpString (u32 length, that many
\* bytes) and the i32 status. The position after the class, 0 for an error.
ReadClass(data, p, idSize) ==
    LET n == Len(data)
        q == p + 1 + idSize
    IN  IF p > n \/ data[p] \notin {1, 2, 3} THEN 0
        ELSE IF idSize \notin {1, 2, 4, 8} THEN 0
        ELSE IF q + 3 > n \/ data[q] >= 128 THEN 0
        ELSE LET len == I32At(data, q)
                 r == q + 4 + len
             IN  IF r - 1 > n \/ ~IsUtf8(SubSeq(data, q + 4, r - 1)) THEN 0
                 ELSE IF r + 3 > n THEN 0
                 ELSE r + 4

RECURSIVE ReadClasses(_, _, _, _)
ReadClasses(data, p, count, idSize) ==
    IF count = 0 THEN TRUE
    ELSE LET q == ReadClass(data, p, idSize)
         IN  q # 0 /\ ReadClasses(data, q, count - 1, idSize)

\* AllClassesReply::read_options with the stored sizes s: the i32 class count, then the
\* classes. A negative count makes Vec::with_capacity(count as usize) panic.
ReadAllClassesReply(data, s) ==
    IF Len(data) < 4 THEN "ParsingError"
    ELSE IF I32At(data, 1) < 0 THEN "Panic"
    ELSE IF ReadClasses(data, 5, I32At(data, 1), s[4]) THEN "Ok"
    ELSE "ParsingError"

\* What `send_request_with_timeout(..).await?` hands on when the send failed.
SendError(c) == [kind |-> "IoError", detail |-> outcome[c]]

\* send_bodyless_variable after the send returned a packet: the sizes are looked up
\* first (IdSizesUnknown when there are none), then the body is decoded with them.
AllClassesResult(c) ==
    IF outcome[c] # "Ok" THEN SendError(c)
    ELSE IF sizes = <<>> THEN [kind |-> "IdSizesUnknown", detail |-> ""]
    ELSE LET r == ReadAllClassesReply(reply[c][1].data, sizes[1])
         IN  IF r = "Ok" THEN [kind |-> "Ok", detail |-> "AllClassesReply"]
             ELSE [kind |-> r, detail |-> "Binary parsing error"]

\* vm_get_id_sizes: send_bodyless::<IdSizesReply>, `?` on the send's error, then the
\* decoding of the body. The error code of the header is not looked at.
VmIdSizesResult(c) ==
    IF outcome[c] # "Ok" THEN SendError(c)
    ELSE IF ReadIdSizesReply(reply[c][1].data) = <<>>
        THEN [kind |-> "ParsingError", detail |-> "Binary parsing error"]
    ELSE [kind |-> "Ok", detail |-> "IdSizesReply"]

\* get_id_sizes: vm_get_id_sizes().await?, then each width is converted to u8.
IdSizesResult(c) ==
    LET v == VmIdSizesResult(c)
    IN  IF v.kind # "Ok" THEN v
        ELSE IF \E k \in 1 .. 5 : ~WidthAccepted(ReadIdSizesReply(reply[c][1].data)[1][k])
            THEN [kind |-> "IdSizesTruncated", detail |-> ""]
        ELSE [kind |-> "Ok", detail |-> "()"]

CommandResult(c) ==
    IF cmd[c] = "IDSizes" THEN IdSizesResult(c)
    ELSE IF cmd[c] = "VmIDSizes" THEN VmIdSizesResult(c)
    ELSE AllClassesResult(c)

\* get_id_sizes, vm_get_id_sizes and vm_get_all_classes.
Commands == {"IDSizes", "VmIDSizes", "AllClasses"}

\* The command methods are called from two tasks that share the client.
Callers == {1, 2}

\* A command method that has been called and has not returned.
InProgress(c) == cmd[c] # "none" /\ result[c] = <<>>

\* A command method is called: each goes straight to send_request_with_timeout, which
\* takes the next id. get_id_sizes borrows the client mutably, so no other command is in
\* progress while it runs; the other two borrow it shared.
CallCommand(c, k) ==
    /\ cmd[c] = "none"
    /\ \A d \in Calls : ~(InProgress(d) /\ "IDSizes" \in {k, cmd[d]})
    /\ TakeId(c)
    /\ cmd' = [cmd EXCEPT ![c] = k]
    /\ UNCHANGED <<result, sizes, peer, fileVars>>

\* The send returned: `?` on its error, else the decoding of the body, and for
\* get_id_sizes the assignment self.sizes = Some(..).
Decode(c) ==
    /\ pc[c] = "done"
    /\ InProgress(c)
    /\ result' = [result EXCEPT ![c] = <<CommandResult(c)>>]
    /\ sizes' = IF cmd[c] = "IDSizes" /\ CommandResult(c).kind = "Ok"
                THEN <<ReadIdSizesReply(reply[c][1].data)[1]>>
                ELSE sizes
    /\ UNCHANGED <<clientVars, cmd, peer, fileVars>>

\* The application awaits each command before it calls the next, as main does.
CallInTurn(c, k) ==
    /\ \A d \in Calls : ~InProgress(d)
    /\ CallCommand(c, k)

\* The reader task reads a reply to a command.
ReaderDeliverCmd == ReaderDeliverOf(CmdPackets)

ReaderDeliverPair == ReaderDeliverOf(PairPackets)

\* JdwpClient::new returned Ok(client): the handshake is done, the reader task runs.
InitCmd ==
    /\ state = "Ready"
    /\ newResult = <<[kind |-> "Ok", detail |-> "JdwpClient"]>>
    /\ buffer = HANDSHAKE_STR
    /\ reader = "Running"
    /\ packet_id = <<0, 0>>
    /\ pending = << >>
    /\ closed = {}
    /\ pc = [c \in Calls |-> "idle"]
    /\ id = [c \in Calls |-> <<0, 0>>]
    /\ chan = [c \in Calls |-> <<>>]
    /\ outcome = [c \in Calls |-> "none"]
    /\ reply = [c \in Calls |-> <<>>]
    /\ wire = <<[id |-> <<0, 0>>, part |-> "handshake"]>>
    /\ lockOrder = <<>>
    /\ late = {}
    /\ woken = {}
    /\ registered = {}
    /\ CmdInit
    /\ PeerInit
    /\ FileIdle

\* What a call does once its command method was called.
CallSteps ==
    \/ \E c \in Calls : Register(c)
    \/ \E c \in Calls : AcquireWriter(c)
    \/ \E c \in Calls : WriteHeader(c)
    \/ \E c \in Calls : WriteBody(c)
    \/ \E c \in Calls : Flush(c)
    \/ \E c \in Calls : Receive(c)
    \/ \E c \in Calls : TimeoutElapsed(c)
    \/ \E c \in Calls : TimeoutCleanup(c)
    \/ \E c \in Calls : Decode(c)

\* A client whose commands are called one after the other, and a peer whose reply
\* headers carry the length of the packet.
NextCmd ==
    \/ ReaderDeliverCmd
    \/ ReaderFail
    \/ \E c \in Calls, k \in Commands : CallInTurn(c, k)
    \/ CallSteps

SpecCmd == InitCmd /\ [][NextCmd]_vars

\* A client shared by two tasks that call the commands taking &self.
NextPair ==
    \/ ReaderDeliverPair
    \/ ReaderFail
    \/ ReaderPanic
    \/ \E c \in Callers, k \in Commands \ {"IDSizes"} : CallCommand(c, k)
    \/ CallSteps

SpecPair == InitCmd /\ [][NextPair]_vars

\* ------------------------------------------------------- dropping the client

\* The peer keeps the connection open and sends nothing more.
PeerFallsSilent ==
    /\ peer = "talking"
    /\ peer' = "silent"
    /\ UNCHANGED <<clientVars, cmdVars, fileVars>>

\* The peer closes the connection.
PeerCloses ==
    /\ peer # "closed"
    /\ peer' = "closed"
    /\ UNCHANGED <<clientVars, cmdVars, fileVars>>

\* read_exact returns bytes only while the peer sends them.
ReadsPacket == peer = "talking" /\ ReaderDeliver
ReadsShortLength == peer = "talking" /\ ReaderPanic

\* read_exact fails on EOF or on an error of the connection; it waits while the peer is
\* silent.
ReadFails == peer # "silent" /\ ReaderFail

\* The client value is dropped: no future borrows it any more. The fields are dropped:
\* the Arcs of the write half, of the map and of the counter, and the JoinHandle, which
\* detaches the reader task. The task keeps the read half and its Arc of the map.
DropClient ==
    /\ state = "Ready"
    /\ \A c \in Calls : pc[c] \in {"idle", "done"}
    /\ state' = "Dropped"
    /\ UNCHANGED <<newResult, buffer, reader, packet_id, pending, closed, pc, id, chan,
                   outcome, reply, wire, lockOrder, late, woken, registered>>
    /\ UNCHANGED restVars

\* What the runtime schedules: the reader task and the send calls.
TaskSteps ==
    \/ ReadsPacket
    \/ ReadsShortLength
    \/ ReadFails
    \/ \E c \in Calls : NextPacketId(c)
    \/ \E c \in Calls : Register(c)
    \/ \E c \in Calls : AcquireWriter(c)
    \/ \E c \in Calls : WriteHeader(c)
    \/ \E c \in Calls : WriteBody(c)
    \/ \E c \in Calls : Flush(c)
    \/ \E c \in Calls : Receive(c)
    \/ \E c \in Calls : TimeoutElapsed(c)
    \/ \E c \in Calls : TimeoutCleanup(c)

NextDrop ==
    \/ TaskSteps
    \/ PeerFallsSilent
    \/ PeerCloses
    \/ DropClient

\* The runtime keeps running the tasks that can take a step; the peer and the owner of
\* the client are under no obligation.
SpecDrop == InitCmd /\ [][NextDrop]_vars /\ WF_vars(TaskSteps)

\* The write half lives in the client, the read half in the reader task.
WriteHalfReleased == state = "Dropped"
ReadHalfReleased == reader \in {"Stopped", "Panicked"}

\* ------------------------------------------------------------ class linker

\* Number of raw class files handed to JavaClassContainerBuilder::new.
MaxClasses == 2

\* ConstantPoolEntry: the constant pool index i is position i + 1 of the sequence, index
\* 0 holding ConstantPoolEntry::Invalid.
Invalid == [tag |-> "Invalid", str |-> "", name_index |-> 0]
Utf8(s) == [tag |-> "Utf8", str |-> s, name_index |-> 0]
CpClass(i) == [tag |-> "Class", str |-> "", name_index |-> i]

\* ConstantPool::find_utf8 and ConstantPool::find_class; <<>> stands for None.
CpFindUtf8(cp, idx) ==
    IF Len(cp) <= idx THEN <<>>
    ELSE IF cp[idx + 1].tag = "Utf8" THEN <<cp[idx + 1].str>>
    ELSE <<>>

CpFindClass(cp, idx) ==
    IF Len(cp) <= idx THEN <<>>
    ELSE IF cp[idx + 1].tag = "Class" THEN <<cp[idx + 1]>>
    ELSE <<>>

\* The class name behind a Class index: find_class(idx).unwrap(), then
\* find_utf8(name_index).unwrap(). <<>> stands for the panic of either unwrap.
ClassNameAt(cp, idx) ==
    IF CpFindClass(cp, idx) = <<>> THEN <<>>
    ELSE CpFindUtf8(cp, CpFindClass(cp, idx)[1].name_index)

\* JavaClassFile::get_name.
get_name(raw) == ClassNameAt(raw.constant_pool, raw.this_class)

\* A class file that declares the class name, with the super-class super ("" for none).
ClassFile(name, super) ==
    [constant_pool |-> IF super = ""
                       THEN <<Invalid, Utf8(name), CpClass(1)>>
                       ELSE <<Invalid, Utf8(name), CpClass(1), Utf8(super), CpClass(3)>>,
     this_class |-> 2,
     super_class |-> IF super = "" THEN 0 ELSE 4]

\* The raw class files of the model: the classes A and B, each without super-class, with
\* itself, the other or the absent class X as super-class; a class whose super_class
\* index points to a Utf8 entry; a class whose this_class index points to one.
RawClassFiles ==
    {ClassFile(n, s) : n \in {"A", "B"}, s \in {"", "A", "B", "X"}}
    \cup {[ClassFile("A", "B") EXCEPT !.super_class = 3],
          [ClassFile("B", "") EXCEPT !.this_class = 1]}

RECURSIVE SeqsUpTo(_, _)
SeqsUpTo(S, n) ==
    IF n = 0 THEN {<<>>}
    ELSE LET shorter == SeqsUpTo(S, n - 1)
         IN  shorter \cup {Append(s, x) : s \in {q \in shorter : Len(q) = n - 1}, x \in S}

\* JavaClass::new(version, name): no super-class, fields, methods or attributes yet.
NewClass(name) == [name |-> name, super_class |-> 0, placeholder |-> FALSE]

\* JavaClass::from_name(name).
FromName(name) == [name |-> name, super_class |-> 0, placeholder |-> TRUE]

\* The memo is not consulted.
NeverParsed(name) == FALSE

\* JavaClassContainerBuilder::find_class(name).is_some().
AlreadyParsed(name) == name \in DOMAIN classes

\* raw_classes.iter().find(|raw_class| raw_class.get_name() == super_name): the index of
\* the first raw class of that name, 0 when there is none, -1 when get_name panics on a
\* raw class before it.
RECURSIVE FindRawFrom(_, _)
FindRawFrom(k, name) ==
    IF k > Len(raw_classes) THEN 0
    ELSE IF get_name(raw_classes[k]) = <<>> THEN -1
    ELSE IF get_name(raw_classes[k])[1] = name THEN k
    ELSE FindRawFrom(k + 1, name)

FindRaw(name) == FindRawFrom(1, name)

\* The deepest recursion the model follows. A recursion deeper than the number of raw
\* classes has some raw class twice on the stack with nothing stored in between, so it
\* repeats until the thread's stack is exhausted.
StackLimit == Len(raw_classes) + 1

Top == stack[Len(stack)]

SetTop(f) == [stack EXCEPT ![Len(stack)] = f]

\* parse_classes: the loop calls parse_class on the next raw class; parse_class returns
\* at once when the name is in the map, else creates the class.
ParseClassFromLoop ==
    /\ lstate = "running"
    /\ stack = <<>>
    /\ iter <= Len(raw_classes)
    /\ iter' = iter + 1
    /\ LET n == get_name(raw_classes[iter])
       IN  IF n = <<>>
           THEN lstate' = "panicked" /\ UNCHANGED <<objects, stack>>
           ELSE IF AlreadyParsed(n[1])
           THEN UNCHANGED <<lstate, objects, stack>>
           ELSE /\ objects' = Append(objects, NewClass(n[1]))
                /\ stack' = <<[raw |-> iter, obj |-> Len(objects) + 1, stage |-> "super"]>>
                /\ UNCHANGED lstate
    /\ UNCHANGED <<raw_classes, classes, jdwpVars, attrVars, decVars, fnVars, codeVars>>

\* parse_super_class of the innermost call.
ParseSuperClass ==
    /\ lstate = "running"
    /\ stack # <<>>
    /\ Top.stage = "super"
    /\ LET raw == raw_classes[Top.raw]
           sn == ClassNameAt(raw.constant_pool, raw.super_class)
       IN  IF raw.super_class = 0
           THEN /\ stack' = SetTop([Top EXCEPT !.stage = "members"])
                /\ UNCHANGED <<classes, objects, lstate>>
           ELSE IF sn = <<>>
           THEN lstate' = "panicked" /\ UNCHANGED <<classes, objects, stack>>
           ELSE IF sn[1] \in DOMAIN classes
           THEN \* Some(parsed_super) => Some(Rc::clone(&parsed_super))
                /\ objects' = [objects EXCEPT ![Top.obj].super_class = classes[sn[1]]]
                /\ stack' = SetTop([Top EXCEPT !.stage = "members"])
                /\ UNCHANGED <<classes, lstate>>
           ELSE IF FindRaw(sn[1]) = -1
           THEN lstate' = "panicked" /\ UNCHANGED <<classes, objects, stack>>
           ELSE IF FindRaw(sn[1]) = 0
           THEN \* the placeholder is stored and becomes the super-class
                /\ objects' = [Append(objects, FromName(sn[1]))
                                 EXCEPT ![Top.obj].super_class = Len(objects) + 1]
                /\ classes' = Insert(classes, sn[1], Len(objects) + 1)
                /\ stack' = SetTop([Top EXCEPT !.stage = "members"])
                /\ UNCHANGED lstate
           ELSE IF Len(stack) >= StackLimit
           THEN lstate' = "overflow" /\ UNCHANGED <<classes, objects, stack>>
           ELSE \* self.parse_class(found_super): its name is not in the map
                /\ objects' = Append(objects, NewClass(sn[1]))
                /\ stack' = Append(SetTop([Top EXCEPT !.stage = "await"]),
                                   [raw |-> FindRaw(sn[1]), obj |-> Len(objects) + 1,
                                    stage |-> "super"])
                /\ UNCHANGED <<classes, lstate>>
    /\ UNCHANGED <<raw_classes, iter, jdwpVars, attrVars, decVars, fnVars, codeVars>>

\* The rest of parse_class: attributes, fields and methods are resolved, the class is
\* stored under its name and returned; a caller in parse_super_class takes the returned
\* Rc as its super-class.
FinishClass ==
    /\ lstate = "running"
    /\ stack # <<>>
    /\ Top.stage = "members"
    /\ classes' = Insert(classes, objects[Top.obj].name, Top.obj)
    /\ IF Len(stack) = 1
       THEN stack' = <<>> /\ UNCHANGED objects
       ELSE LET caller == stack[Len(stack) - 1]
            IN  /\ objects' = [objects EXCEPT ![caller.obj].super_class = Top.obj]
                /\ stack' = [SubSeq(stack, 1, Len(stack) - 1)
                               EXCEPT ![Len(stack) - 1] = [caller EXCEPT !.stage = "members"]]
    /\ UNCHANGED <<raw_classes, iter, lstate, jdwpVars, attrVars, decVars, fnVars, codeVars>>

\* The loop of parse_classes is over: self.classes is returned.
ReturnClasses ==
    /\ lstate = "running"
    /\ stack = <<>>
    /\ iter > Len(raw_classes)
    /\ lstate' = "done"
    /\ UNCHANGED <<raw_classes, classes, objects, stack, iter, jdwpVars, attrVars, decVars,
                   fnVars, codeVars>>

\* JavaClassContainerBuilder::new(&raw_files) on any list of raw class files.
InitLink ==
    /\ ClientInit
    /\ CmdInit
    /\ PeerInit
    /\ raw_classes \in SeqsUpTo(RawClassFiles, MaxClasses)
    /\ classes = << >>
    /\ objects = <<>>
    /\ stack = <<>>
    /\ iter = 1
    /\ lstate = "running"
    /\ AttrIdle
    /\ DecIdle
    /\ FnIdle
    /\ CodeIdle

NextLink ==
    \/ ParseClassFromLoop
    \/ ParseSuperClass
    \/ FinishClass
    \/ ReturnClasses

SpecLink == InitLink /\ [][NextLink]_vars

\* ------------------------------------------------- attribute resolution

\* The number of raw attributes of the class being resolved is at most this.
MaxAttributes == 2

\* What a read at offset p of the byte sequence d gives: the value and the offset after it,
\* a deserialization error, or a panic.
ReadOk(v, p) == [st |-> "Ok", val |-> <<v>>, pos |-> p]
ReadErr == [st |-> "Err", val |-> <<>>, pos |-> 0]
ReadPanic == [st |-> "Panic", val |-> <<>>, pos |-> 0]

\* n more bytes can be read at offset p.
Has(d, p, n) == p + n <= Len(d)

\* The big-endian u16 at offset p.
U16At(d, p) == d[p + 1] * 256 + d[p + 2]

\* The big-endian u32 at offset p used as an element count: its value when it is below
\* 65536, and 65536 (more than any buffer of the model holds) otherwise.
Count32At(d, p) == IF d[p + 1] = 0 /\ d[p + 2] = 0 THEN U16At(d, p + 2) ELSE U16Mod

ReadU16(d, p) == IF Has(d, p, 2) THEN ReadOk(U16At(d, p), p + 2) ELSE ReadErr

\* AttributeInfo: name_index, data_length, data_length bytes of data.
ReadAttributeInfo(d, p) ==
    IF ~Has(d, p, 6) THEN ReadErr
    ELSE LET n == Count32At(d, p + 2)
         IN  IF ~Has(d, p + 6, n) THEN ReadErr
             ELSE ReadOk([name_index |-> U16At(d, p),
                          data |-> SubSeq(d, p + 7, p + 6 + n)], p + 6 + n)

\* #[br(count = n)] Vec<AttributeInfo>: the first failure fails the whole read.
RECURSIVE ReadAttributeInfos(_, _, _)
ReadAttributeInfos(d, p, n) ==
    IF n = 0 THEN ReadOk(<<>>, p)
    ELSE LET a == ReadAttributeInfo(d, p)
         IN  IF a.st # "Ok" THEN a
             ELSE LET r == ReadAttributeInfos(d, a.pos, n - 1)
                  IN  IF r.st # "Ok" THEN r
                      ELSE ReadOk(a.val \o r.val[1], r.pos)

\* The exception table entries of a Code attribute are four u16 each.
CodeExceptionLen == 8

\* CodeAttributeRaw::read: max_stack, max_locals, code_length and the code, the exception
\* table with its length, the nested attributes with their count.
ReadCodeAttributeRaw(d) ==
    IF ~Has(d, 0, 8) THEN ReadErr
    ELSE LET n == Count32At(d, 4)
             e == 8 + n
         IN  IF ~Has(d, 8, n) \/ ~Has(d, e, 2) THEN ReadErr
             ELSE LET x == U16At(d, e)
                      a == e + 2 + x * CodeExceptionLen
                  IN  IF ~Has(d, e + 2, x * CodeExceptionLen) \/ ~Has(d, a, 2) THEN ReadErr
                      ELSE LET as == ReadAttributeInfos(d, a + 2, U16At(d, a))
                           IN  IF as.st # "Ok" THEN as
                               ELSE ReadOk([max_stack |-> U16At(d, 0),
                                            max_locals |-> U16At(d, 2),
                                            code |-> SubSeq(d, 9, e),
                                            exception_table |-> SubSeq(d, e + 3, a),
                                            attributes |-> as.val[1]], as.pos)

\* The values of AttributeType, and the panic of an unwrap in place of a value.
ErrorAttribute(message, data) == [kind |-> "Error", message |-> message, data |-> data]
Deprecated == [kind |-> "Deprecated"]
ConstantValueIndex(i) == [kind |-> "ConstantValueIndex", value_cp_index |-> i]
SourceFileAttribute(name) == [kind |-> "SourceFile", file_name |-> name]
CodeAttribute(raw, as) ==
    [kind |-> "Code", max_stack |-> raw.max_stack, max_locals |-> raw.max_locals,
     code |-> raw.code, exception_table |-> raw.exception_table, attributes |-> as]
Panicked == [kind |-> "Panic"]

\* SourceFileAttribute::read: Err on a short payload, find_utf8(..).unwrap() otherwise.
SourceFileAttributeRead(data, cp) ==
    LET raw == ReadU16(data, 0)
    IN  IF raw.st # "Ok" THEN [st |-> "Deserialization"]
        ELSE IF CpFindUtf8(cp, raw.val[1]) = <<>> THEN [st |-> "Panic"]
        ELSE [st |-> "Ok", val |-> SourceFileAttribute(CpFindUtf8(cp, raw.val[1])[1])]

RECURSIVE parse_attribute(_, _)

\* The loop of CodeAttribute::read over the nested attributes: <<>> when one of them panics.
RECURSIVE ParseNested(_, _)
ParseNested(infos, cp) ==
    IF infos = <<>> THEN <<<<>>>>
    ELSE LET a == parse_attribute(Head(infos), cp)
         IN  IF a.kind = "Panic" THEN <<>>
             ELSE LET r == ParseNested(Tail(infos), cp)
                  IN  IF r = <<>> THEN <<>> ELSE <<<<a>> \o r[1]>>

\* CodeAttribute::read.
CodeAttributeRead(data, cp) ==
    LET raw == ReadCodeAttributeRaw(data)
    IN  IF raw.st # "Ok" THEN [st |-> "Deserialization"]
        ELSE LET as == ParseNested(raw.val[1].attributes, cp)
             IN  IF as = <<>> THEN [st |-> "Panic"]
                 ELSE [st |-> "Ok", val |-> CodeAttribute(raw.val[1], as[1])]

\* JavaClassContainerBuilder::read_attribute.
read_attribute(data, attr_name, cp) ==
    IF attr_name = "Code" THEN CodeAttributeRead(data, cp)
    ELSE IF attr_name = "ConstantValue"
        THEN IF ReadU16(data, 0).st # "Ok" THEN [st |-> "Deserialization"]
             ELSE [st |-> "Ok", val |-> ConstantValueIndex(ReadU16(data, 0).val[1])]
    ELSE IF attr_name = "Deprecated" THEN [st |-> "Ok", val |-> Deprecated]
    ELSE IF attr_name = "SourceFile" THEN SourceFileAttributeRead(data, cp)
    ELSE [st |-> "NotSuported"]

\* JavaClassContainerBuilder::parse_attribute.
parse_attribute(attribute_info, cp) ==
    LET name == CpFindUtf8(cp, attribute_info.name_index)
    IN  IF name = <<>> THEN Panicked
        ELSE LET read_result == read_attribute(attribute_info.data, name[1], cp)
             IN  IF read_result.st = "Ok" THEN read_result.val
                 ELSE IF read_result.st = "Panic" THEN Panicked
                 ELSE IF read_result.st = "Deserialization"
                     THEN ErrorAttribute(<<"Deserialization error: ">>, attribute_info.data)
                 ELSE ErrorAttribute(<<"Not supported: ", name[1]>>, attribute_info.data)

\* The constant pool of the class whose attributes are resolved: the four recognized
\* attribute names, another name, and a Class entry.
AttrPool ==
    <<Invalid, Utf8("SourceFile"), Utf8("Deprecated"), Utf8("ConstantValue"), Utf8("Code"),
      Utf8("Foo"), CpClass(5)>>

\* The name indices of the model: every entry of the pool and the first index past it.
NameIndices == 1 .. Len(AttrPool)

\* An attribute as it is laid out inside a Code payload.
AttributeBytes(name_index, data) == <<0, name_index, 0, 0, 0, Len(data)>> \o data

\* A Code payload: max_stack 1, max_locals 1, the one instruction return, no exception
\* handler, and the nested attributes given as bytes.
CodeBody(count, nested) == <<0, 1, 0, 1, 0, 0, 0, 1, 177, 0, 0, 0, count>> \o nested

\* The payloads of the model: empty, one byte, the index of a Utf8 entry, the index of a
\* Class entry, and Code payloads: without nested attribute, with a nested Deprecated, with
\* a nested attribute of unknown name, with one whose name index is a Class entry, and cut
\* short inside the nested attribute.
Payloads ==
    {<<>>, <<0>>, <<0, 5>>, <<0, 6>>,
     CodeBody(0, <<>>),
     CodeBody(1, AttributeBytes(2, <<>>)),
     CodeBody(1, AttributeBytes(5, <<7>>)),
     CodeBody(1, AttributeBytes(6, <<>>)),
     CodeBody(1, <<0, 2, 0, 0>>)}

AttributeInfos == [name_index : NameIndices, data : Payloads]

\* One turn of the loop of parse_class_attributes: the next raw attribute is resolved and
\* pushed; a panic inside parse_attribute ends the resolution.
ParseClassAttribute ==
    /\ astate = "running"
    /\ Len(attributes) < Len(attribute_infos)
    /\ LET a == parse_attribute(attribute_infos[Len(attributes) + 1], AttrPool)
       IN  IF a.kind = "Panic"
           THEN astate' = "panicked" /\ UNCHANGED attributes
           ELSE attributes' = Append(attributes, a) /\ UNCHANGED astate
    /\ UNCHANGED <<attribute_infos, jdwpVars, linkVars, decVars, fnVars, codeVars>>

\* parse_class_attributes returns Ok(()).
ClassAttributesParsed ==
    /\ astate = "running"
    /\ Len(attributes) = Len(attribute_infos)
    /\ astate' = "done"
    /\ UNCHANGED <<attribute_infos, attributes, jdwpVars, linkVars, decVars, fnVars, codeVars>>

\* parse_class_attributes on any list of raw attributes.
InitAttr ==
    /\ ClientInit
    /\ CmdInit
    /\ PeerInit
    /\ LinkIdle
    /\ DecIdle
    /\ FnIdle
    /\ CodeIdle
    /\ attribute_infos \in SeqsUpTo(AttributeInfos, MaxAttributes)
    /\ attributes = <<>>
    /\ astate = "running"

NextAttr ==
    \/ ParseClassAttribute
    \/ ClassAttributesParsed

SpecAttr == InitAttr /\ [][NextAttr]_vars

\* ------------------------------------------------- class-file decoding

\* JAVA_CLASS_FILE_MAGIC as its four big-endian bytes.
JAVA_CLASS_FILE_MAGIC == <<202, 254, 186, 190>>

\* Version: magic, minor, major; the magic is read as any u32.
ReadVersion(d, p) ==
    IF ~Has(d, p, 8) THEN ReadErr
    ELSE ReadOk([magic |-> SubSeq(d, p + 1, p + 4),
                 minor |-> U16At(d, p + 4),
                 major |-> U16At(d, p + 6)], p + 8)

\* ModifiedUtf8String::read_options: the length with ?, read_exact(..).expect(..), then
\* String::from_utf8 mapped to an error.
ReadModifiedUtf8String(d, p) ==
    IF ~Has(d, p, 2) THEN ReadErr
    ELSE LET length == U16At(d, p)
         IN  IF ~Has(d, p + 2, length) THEN ReadPanic
             ELSE IF ~IsUtf8(SubSeq(d, p + 3, p + 2 + length)) THEN ReadErr
             ELSE ReadOk(SubSeq(d, p + 3, p + 2 + length), p + 2 + length)

\* A constant pool entry that is neither Utf8 nor Class, with the bytes of its value.
CpOther(tag, raw) == [tag |-> tag, str |-> "", name_index |-> 0, raw |-> raw]

\* The entries whose value is n bytes read with ?.
ReadFixed(d, p, tag, n) ==
    IF Has(d, p, n) THEN ReadOk(CpOther(tag, SubSeq(d, p + 1, p + n)), p + n) ELSE ReadErr

\* ConstantPoolEntry::read_options.
ReadConstantPoolEntry(d, p) ==
    IF ~Has(d, p, 1) THEN ReadErr
    ELSE LET tag_raw == d[p + 1]
             q == p + 1
         IN  CASE tag_raw = 1 ->
                    LET s == ReadModifiedUtf8String(d, q)
                    IN  IF s.st # "Ok" THEN s ELSE ReadOk(Utf8(s.val[1]), s.pos)
               [] tag_raw = 3 -> ReadFixed(d, q, "Integer", 4)
               [] tag_raw = 4 -> ReadFixed(d, q, "Float", 4)
               [] tag_raw = 5 -> ReadFixed(d, q, "Long", 8)
               [] tag_raw = 6 -> ReadFixed(d, q, "Double", 8)
               [] tag_raw = 7 ->
                    IF Has(d, q, 2) THEN ReadOk(CpClass(U16At(d, q)), q + 2) ELSE ReadErr
               [] tag_raw = 8 -> ReadFixed(d, q, "String", 2)
               [] tag_raw = 9 -> ReadFixed(d, q, "FieldRef", 4)
               [] tag_raw = 10 -> ReadFixed(d, q, "MethodRef", 4)
               [] tag_raw = 11 -> ReadFixed(d, q, "InterfaceMethodRef", 4)
               [] tag_raw = 12 -> ReadFixed(d, q, "NameAndType", 4)
               [] tag_raw \in 15 .. 20 -> ReadPanic
               [] OTHER -> ReadErr

\* Every entry taking one slot.
OneSlot(entry) == 1

\* The slots an entry takes: two for the 8-byte constants, one otherwise.
Slots(entry) == IF entry.tag \in {"Long", "Double"} THEN 2 ELSE 1

\* The loop of ConstantPool::read_options.
RECURSIVE ReadEntries(_, _, _, _, _)
ReadEntries(d, p, parsed_count, length, entries) ==
    IF parsed_count >= length THEN ReadOk(entries, p)
    ELSE LET entry == ReadConstantPoolEntry(d, p)
         IN  IF entry.st # "Ok" THEN entry
             ELSE ReadEntries(d, entry.pos,
                              parsed_count + Slots(entry.val[1]),
                              length,
                              [entries EXCEPT ![parsed_count + 1] = entry.val[1]])

\* ConstantPool::read_options.
ReadConstantPool(d, p) ==
    IF ~Has(d, p, 2) THEN ReadErr
    ELSE ReadEntries(d, p + 2, 1, U16At(d, p), [i \in 1 .. U16At(d, p) |-> Invalid])

\* #[br(count = n)] Vec<u16>.
ReadU16s(d, p, n) ==
    IF Has(d, p, 2 * n)
    THEN ReadOk([i \in 1 .. n |-> U16At(d, p + 2 * (i - 1))], p + 2 * n)
    ELSE ReadErr

\* FieldInfo and MethodInfo: access_flags, name_index, descriptor_index, the attributes.
ReadMemberInfo(d, p) ==
    IF ~Has(d, p, 8) THEN ReadErr
    ELSE LET as == ReadAttributeInfos(d, p + 8, U16At(d, p + 6))
         IN  IF as.st # "Ok" THEN as
             ELSE ReadOk([access_flags |-> U16At(d, p),
                          name_index |-> U16At(d, p + 2),
                          descriptor_index |-> U16At(d, p + 4),
                          attributes |-> as.val[1]], as.pos)

\* #[br(count = n)] Vec<FieldInfo> and Vec<MethodInfo>.
RECURSIVE ReadMemberInfos(_, _, _)
ReadMemberInfos(d, p, n) ==
    IF n = 0 THEN ReadOk(<<>>, p)
    ELSE LET m == ReadMemberInfo(d, p)
         IN  IF m.st # "Ok" THEN m
             ELSE LET r == ReadMemberInfos(d, m.pos, n - 1)
                  IN  IF r.st # "Ok" THEN r
                      ELSE ReadOk(m.val \o r.val[1], r.pos)

\* A u16 count at offset p followed by that many elements read by Read.
Counted(d, p, Read(_, _, _)) ==
    IF ~Has(d, p, 2) THEN ReadErr ELSE Read(d, p + 2, U16At(d, p))

\* JavaClassFile::read reads the fields in the order of the struct and stops at the first
\* that fails. Each operator below takes the file read so far and the outcome of the
\* latest read, and goes on with the next field.
NoClassFile ==
    [version |-> <<>>, constant_pool |-> <<>>, access_flags |-> 0, this_class |-> 0,
     super_class |-> 0, interfaces |-> <<>>, fields |-> <<>>, methods |-> <<>>,
     attributes |-> <<>>]

AfterAttributes(file, r) ==
    IF r.st # "Ok" THEN r
    ELSE ReadOk([file EXCEPT !.attributes = r.val[1]], r.pos)

AfterMethods(d, file, r) ==
    IF r.st # "Ok" THEN r
    ELSE AfterAttributes([file EXCEPT !.methods = r.val[1]],
                         Counted(d, r.pos, ReadAttributeInfos))

AfterFields(d, file, r) ==
    IF r.st # "Ok" THEN r
    ELSE AfterMethods(d, [file EXCEPT !.fields = r.val[1]],
                      Counted(d, r.pos, ReadMemberInfos))

AfterInterfaces(d, file, r) ==
    IF r.st # "Ok" THEN r
    ELSE AfterFields(d, [file EXCEPT !.interfaces = r.val[1]],
                     Counted(d, r.pos, ReadMemberInfos))

AfterConstantPool(d, file, r) ==
    IF r.st # "Ok" THEN r
    ELSE IF ~Has(d, r.pos, 6) THEN ReadErr
    ELSE AfterInterfaces(d, [file EXCEPT !.constant_pool = r.val[1],
                                         !.access_flags = U16At(d, r.pos),
                                         !.this_class = U16At(d, r.pos + 2),
                                         !.super_class = U16At(d, r.pos + 4)],
                         Counted(d, r.pos + 6, ReadU16s))

AfterVersion(d, r) ==
    IF r.st # "Ok" THEN r
    ELSE AfterConstantPool(d, [NoClassFile EXCEPT !.version = r.val[1]],
                           ReadConstantPool(d, r.pos))

\* JavaClassFile::read.
ReadJavaClassFile(d) == AfterVersion(d, ReadVersion(d, 0))

\* A class file is its magic, minor 0 and major 52, and the rest.
FileBytes(magic, rest) == magic \o <<0, 0, 0, 52>> \o rest

\* What follows the constant pool in the files of the model: no member at all, or one
\* interface, one field, one method with one attribute, and no class attribute.
NoMembers == <<0, 33, 0, 2, 0, 0, 0, 0, 0, 0, 0, 0, 0, 0>>
SomeMembers ==
    <<0, 33, 0, 2, 0, 0, 0, 1, 0, 2>>
    \o <<0, 1, 0, 1, 0, 1, 0, 1, 0, 0>>
    \o <<0, 1, 0, 1, 0, 1, 0, 1, 0, 1>> \o AttributeBytes(1, <<9>>)
    \o <<0, 0>>

\* The constant pools of the model: empty; a Utf8 "A", its Class and an Integer; a Long,
\* which takes two slots; a MethodHandle; the tag 2, which no entry has; a Utf8 entry
\* whose byte is not UTF-8.
Pools ==
    {<<0, 1>>,
     <<0, 4, 1, 0, 1, 65, 7, 0, 1, 3, 0, 0, 0, 9>>,
     <<0, 3, 5, 0, 0, 0, 0, 0, 0, 0, 9>>,
     <<0, 2, 15, 1, 0, 1>>,
     <<0, 2, 2, 0, 1>>,
     <<0, 2, 1, 0, 1, 255>>}

\* A magic that is not 0xCAFEBABE.
Magics == {JAVA_CLASS_FILE_MAGIC, <<222, 173, 190, 239>>}

Files == {FileBytes(m, cp \o r) : m \in Magics, cp \in Pools, r \in {NoMembers, SomeMembers}}

\* The buffers of the model: the files and everything a file is cut down to.
Buffers == UNION {{SubSeq(f, 1, n) : n \in 0 .. Len(f)} : f \in Files}

\* JavaClassFile::read(&mut Cursor::new(input)).
ReadClassFile ==
    /\ decoded = <<>>
    /\ decoded' = <<[st |-> ReadJavaClassFile(input).st, val |-> ReadJavaClassFile(input).val]>>
    /\ UNCHANGED <<input, jdwpVars, linkVars, attrVars, fnVars, codeVars>>

\* Any buffer is handed to the decoder.
InitDec ==
    /\ ClientInit
    /\ CmdInit
    /\ PeerInit
    /\ LinkIdle
    /\ AttrIdle
    /\ FnIdle
    /\ CodeIdle
    /\ input \in Buffers
    /\ decoded = <<>>

NextDec == ReadClassFile

SpecDec == InitDec /\ [][NextDec]_vars

\* ------------------------------------------------- constant-pool accessors

\* The number of entries written in a constant pool of the model is at most this.
MaxEntries == 2

\* `as i16`, `as u8` on an i32.
AsI16(n) == LET m == n % U16Mod IN IF m >= 32768 THEN m - U16Mod ELSE m
AsU8(n) == n % 256

\* The check every accessor starts with: self.entries.len() <= cp_index.
PastEnd(cp, idx) == Len(cp) <= idx

\* An Option is a sequence: <<>> for None, <<v>> for Some(v); the panic of an index out of
\* bounds, in place of an Option, is a sequence of length two.
IndexPanic == <<0, 0>>
IsSome(o) == Len(o) = 1

\* What the accessors have in common: None past the end, the panic of the index
\* expression when the check lets an index past the end through, the value of the entry
\* when it is of the kind wanted, None otherwise.
FindKind(cp, idx, kind) ==
    IF PastEnd(cp, idx) THEN <<>>
    ELSE IF idx >= Len(cp) THEN IndexPanic
    ELSE IF cp[idx + 1].tag = kind THEN <<cp[idx + 1]>>
    ELSE <<>>

\* Option::map.
MapOption(o, F(_)) == IF IsSome(o) THEN <<F(o[1])>> ELSE o

EntryI32(e) == I32At(e.raw, 1)
EntryRaw(e) == e.raw
EntryStr(e) == e.str
IsNonZero(n) == n # 0
Identity(x) == x

find_utf8(cp, idx) == MapOption(FindKind(cp, idx, "Utf8"), EntryStr)
find_class(cp, idx) == FindKind(cp, idx, "Class")
find_int(cp, idx) == MapOption(FindKind(cp, idx, "Integer"), EntryI32)
find_short(cp, idx) == MapOption(find_int(cp, idx), AsI16)
find_byte(cp, idx) == MapOption(find_int(cp, idx), AsU8)
find_char(cp, idx) == MapOption(find_byte(cp, idx), Identity)
find_bool(cp, idx) == MapOption(find_int(cp, idx), IsNonZero)
find_float(cp, idx) == MapOption(FindKind(cp, idx, "Float"), EntryRaw)
find_long(cp, idx) == MapOption(FindKind(cp, idx, "Long"), EntryRaw)
find_double(cp, idx) == MapOption(FindKind(cp, idx, "Double"), EntryRaw)

\* find_string_ref: Some(self.find_utf8(cp_entry.string_index)?).
find_string_ref(cp, idx) ==
    LET e == FindKind(cp, idx, "String")
    IN  IF IsSome(e) THEN find_utf8(cp, U16At(e[1].raw, 0)) ELSE e

\* Every typed accessor applied to one index.
FindAll(cp, idx) ==
    [utf8 |-> find_utf8(cp, idx), class |-> find_class(cp, idx), int |-> find_int(cp, idx),
     short |-> find_short(cp, idx), byte |-> find_byte(cp, idx),
     char |-> find_char(cp, idx), bool |-> find_bool(cp, idx),
     float |-> find_float(cp, idx), long |-> find_long(cp, idx),
     double |-> find_double(cp, idx), string_ref |-> find_string_ref(cp, idx)]

\* One entry of each kind the decoder implements, as bytes: the Utf8 "A", the Integer
\* -2, a Float, a Long, a Double, a Class and a String that both point to index 1.
EntryBytes ==
    {<<1, 0, 1, 65>>, <<3, 255, 255, 255, 254>>, <<4, 63, 128, 0, 0>>,
     <<5, 0, 0, 0, 0, 0, 0, 0, 7>>, <<6, 64, 0, 0, 0, 0, 0, 0, 0>>,
     <<7, 0, 1>>, <<8, 0, 1>>}

RECURSIVE Flatten(_)
Flatten(ss) == IF ss = <<>> THEN <<>> ELSE Head(ss) \o Flatten(Tail(ss))

\* The pools of the model: every count from 0 to past what the entries written need,
\* followed by the entries.
PoolBuffers ==
    {<<0, count>> \o Flatten(es) :
        count \in 0 .. 2 * MaxEntries + 2, es \in SeqsUpTo(EntryBytes, MaxEntries)}

\* ConstantPool::read on the buffer, then every accessor at the index.
FindInPool ==
    /\ args # <<>>
    /\ ret = <<>>
    /\ LET pool == ReadConstantPool(args[1].buffer, 0)
       IN  ret' = <<[st |-> pool.st,
                     entries |-> pool.val,
                     found |-> IF pool.st = "Ok"
                               THEN <<FindAll(pool.val[1], args[1].cp_index)>>
                               ELSE <<>>]>>
    /\ UNCHANGED <<args, jdwpVars, linkVars, attrVars, decVars, codeVars>>

\* Any pool of the model and any index up to past its end.
InitPool ==
    /\ ClientInit
    /\ CmdInit
    /\ PeerInit
    /\ LinkIdle
    /\ AttrIdle
    /\ DecIdle
    /\ CodeIdle
    /\ args \in {<<a>> : a \in [buffer : PoolBuffers, cp_index : 0 .. 2 * MaxEntries + 3]}
    /\ ret = <<>>

NextPool == FindInPool

SpecPool == InitPool /\ [][NextPool]_vars

\* ------------------------------------------------- instruction decoding

\* A code array of the model is made of at most this many pieces.
MaxPieces == 2

I32Max == 2147483647
I32Min == -2147483647 - 1

\* a - b and a + b on i32 with overflow checks off: the result modulo 2^32. Each branch
\* stays within 32 bits.
WrappingSub(a, b) ==
    IF b < 0 /\ a > I32Max + b THEN ((a - I32Max) - 1) - ((b + I32Max) + 1)
    ELSE IF b > 0 /\ a < I32Min + b THEN ((a + I32Max) + 1) - ((b - I32Max) - 1)
    ELSE a - b

SubOverflows(a, b) == (b < 0 /\ a > I32Max + b) \/ (b > 0 /\ a < I32Min + b)

WrappingAdd(a, b) == WrappingSub(a, IF b = I32Min THEN b ELSE -b)

AddOverflows(a, b) == (b > 0 /\ a > I32Max - b) \/ (b < 0 /\ a < I32Min - b)

\* A read that failed at offset p: binrw puts the stream back to where the read began.
ReadErrAt(p) == [st |-> "Err", val |-> <<>>, pos |-> p]

\* i32::read_be at offset p.
ReadI32(d, p) == IF Has(d, p, 4) THEN ReadOk(I32At(d, p + 1), p + 4) ELSE ReadErrAt(p)

\* n times i32::read_be, the first failure failing the whole.
RECURSIVE ReadI32s(_, _, _)
ReadI32s(d, p, n) ==
    IF n <= 0 THEN ReadOk(<<>>, p)
    ELSE LET x == ReadI32(d, p)
         IN  IF x.st # "Ok" THEN x
             ELSE LET r == ReadI32s(d, x.pos, n - 1)
                  IN  IF r.st # "Ok" THEN r ELSE ReadOk(x.val \o r.val[1], r.pos)

\* The operand fields of the given widths, read one after the other; the values are kept
\* as the bytes read.
RECURSIVE ReadFields(_, _, _)
ReadFields(d, p, widths) ==
    IF widths = <<>> THEN ReadOk(<<>>, p)
    ELSE IF ~Has(d, p, Head(widths)) THEN ReadErrAt(p)
    ELSE LET r == ReadFields(d, p + Head(widths), Tail(widths))
         IN  IF r.st # "Ok" THEN r
             ELSE ReadOk(<<SubSeq(d, p + 1, p + Head(widths))>> \o r.val[1], r.pos)

\* Opcode::try_from: the bytes 0 .. 201 are the opcodes of the JVM.
LastOpcode == 201

\* Every byte taken for an opcode.
AnyByte(b) == TRUE

IsOpcode(b) == b <= LastOpcode

TABLESWITCH == 170
LOOKUPSWITCH == 171
WIDE == 196
IINC == 132

\* The operand fields Instruction::read_options reads after each opcode.
OperandWidths(b) ==
    IF b \in {16, 18, 21, 22, 23, 24, 25, 54, 55, 56, 57, 58, 169, 188} THEN <<1>>
    ELSE IF b \in {17, 19, 20, 167, 168, 178, 179, 180, 181, 182, 183, 184, 186, 187,
                   189, 192, 193, 198, 199} \cup (153 .. 166) THEN <<2>>
    ELSE IF b = IINC THEN <<1, 1>>
    ELSE IF b \in {185, 197} THEN <<2, 1>>
    ELSE IF b \in {200, 201} THEN <<4>>
    ELSE <<>>

\* The opcodes WideInstruction::read_options accepts and their operand fields.
WideOperandWidths(b) ==
    IF b \in {21, 22, 23, 24, 25, 54, 55, 56, 57, 58, 169} THEN <<2>>
    ELSE IF b = IINC THEN <<2, 2>>
    ELSE <<>>

\* The padding read_table_switch and read_lookup_switch seek over, from the stream position
\* pos they are called at (the byte after the opcode).
PaddingBytes(pos) == (4 - ((pos + 1) % 4)) % 4

\* count = high - low + 1 of read_table_switch, clamped at zero. With overflow checks on,
\* an overflow is a panic (<<>> here); with overflow checks off, the value wraps.
TableCount(low, high, checks) ==
    LET diff == WrappingSub(high, low)
        count == WrappingAdd(diff, 1)
    IN  IF checks /\ (SubOverflows(high, low) \/ AddOverflows(diff, 1)) THEN <<>>
        ELSE <<IF count < 0 THEN 0 ELSE count>>

\* read_table_switch, called at the stream position pos. The position at which the
\* default was read is kept in read_at. Vec::with_capacity is taken to succeed.
read_table_switch(d, pos, checks) ==
    LET at == pos + PaddingBytes(pos)
        head == ReadI32s(d, at, 3)
    IN  IF head.st # "Ok" THEN head
        ELSE LET low == head.val[1][2]
                 high == head.val[1][3]
                 count == TableCount(low, high, checks)
             IN  IF count = <<>> THEN ReadPanic
                 ELSE LET offsets == ReadI32s(d, head.pos, count[1])
                      IN  IF offsets.st # "Ok" THEN offsets
                          ELSE ReadOk([kind |-> "Tableswitch", default |-> head.val[1][1],
                                       low |-> low, high |-> high,
                                       offsets |-> offsets.val[1], read_at |-> at],
                                      offsets.pos)

\* HashMap::insert of the pairs in the order read: a later pair replaces an earlier one.
RECURSIVE InsertPairs(_, _)
InsertPairs(map, flat) ==
    IF flat = <<>> THEN map
    ELSE InsertPairs([k \in DOMAIN map \cup {flat[1]} |->
                         IF k = flat[1] THEN flat[2] ELSE map[k]],
                     SubSeq(flat, 3, Len(flat)))

\* read_lookup_switch, called at the stream position pos.
\* HashMap::with_capacity(npairs_count as usize) panics for a negative npairs_count, which
\* is a capacity above isize::MAX; for any other it is taken to succeed.
read_lookup_switch(d, pos) ==
    LET at == pos + PaddingBytes(pos)
        head == ReadI32s(d, at, 2)
    IN  IF head.st # "Ok" THEN head
        ELSE IF head.val[1][2] < 0 THEN ReadPanic
        ELSE LET pairs == ReadI32s(d, head.pos, 2 * head.val[1][2])
             IN  IF pairs.st # "Ok" THEN pairs
                 ELSE ReadOk([kind |-> "Lookupswitch", default_offset |-> head.val[1][1],
                              matches |-> InsertPairs(<< >>, pairs.val[1]),
                              read_at |-> at], pairs.pos)

\* WideInstruction::read_options at offset p.
ReadWideInstruction(d, p) ==
    IF ~Has(d, p, 1) THEN ReadErrAt(p)
    ELSE IF ~IsOpcode(d[p + 1]) \/ WideOperandWidths(d[p + 1]) = <<>> THEN ReadErrAt(p + 1)
    ELSE LET r == ReadFields(d, p + 1, WideOperandWidths(d[p + 1]))
         IN  IF r.st # "Ok" THEN r
             ELSE ReadOk([kind |-> "Wide", opcode |-> d[p + 1], operands |-> r.val[1]],
                         r.pos)

\* Instruction::Unknown.
Unknown(error) == [kind |-> "Unknown", error |-> error]

\* Instruction::read_options at offset p, where a byte can be read.
ReadInstruction(d, p, checks) ==
    LET opcode_raw == d[p + 1]
    IN  IF ~IsOpcode(opcode_raw)
            THEN ReadOk(Unknown(<<"Invalid opcode: ", opcode_raw>>), p + 1)
        ELSE IF opcode_raw = TABLESWITCH THEN read_table_switch(d, p + 1, checks)
        ELSE IF opcode_raw = LOOKUPSWITCH THEN read_lookup_switch(d, p + 1)
        ELSE IF opcode_raw = WIDE THEN ReadWideInstruction(d, p + 1)
        ELSE LET r == ReadFields(d, p + 1, OperandWidths(opcode_raw))
             IN  IF r.st # "Ok" THEN r
                 ELSE ReadOk([kind |-> "Instruction", opcode |-> opcode_raw,
                              operands |-> r.val[1]], r.pos)

\* One turn of the loop of parse_instructions: an instruction is read and pushed, an
\* error is pushed as Unknown, and the stream position is read again. Whether the build
\* checks integer overflow is not known.
ParseInstruction ==
    /\ pstate = "running"
    /\ position < Len(code)
    /\ \E checks \in BOOLEAN :
        LET r == ReadInstruction(code, position, checks)
        IN  IF r.st = "Panic"
            THEN pstate' = "panicked" /\ UNCHANGED <<position, instructions>>
            ELSE /\ instructions' =
                        Append(instructions,
                               IF r.st = "Ok" THEN r.val[1]
                               ELSE Unknown(<<"Could not read instruction: ">>))
                 /\ position' = r.pos
                 /\ UNCHANGED pstate
    /\ UNCHANGED <<code, jdwpVars, linkVars, attrVars, decVars, fnVars>>

\* The loop ends when the position has reached or passed the end: Ok(instructions).
ReturnInstructions ==
    /\ pstate = "running"
    /\ position >= Len(code)
    /\ pstate' = "done"
    /\ UNCHANGED <<code, position, instructions, jdwpVars, linkVars, attrVars, decVars,
                   fnVars>>

\* A switch after its opcode: padding zero bytes, then the i32 values.
RECURSIVE I32sBytes(_)
I32sBytes(ns) == IF ns = <<>> THEN <<>> ELSE I32Bytes(Head(ns)) \o I32sBytes(Tail(ns))

Zeros(n) == [i \in 1 .. n |-> 0]

TableSwitchBytes(pad, ns) == <<TABLESWITCH>> \o Zeros(pad) \o I32sBytes(ns)
LookupSwitchBytes(pad, ns) == <<LOOKUPSWITCH>> \o Zeros(pad) \o I32sBytes(ns)

\* The pieces code arrays are made of: nop, bipush, sipush with one byte, iinc with one
\* byte, the undefined bytes 202 and 254, wide iload, wide before an undefined byte,
\* wide nop, wide alone; tableswitch with the ranges 1..2, 5..3, 0..MAX, 2..MIN, 1..MIN
\* and with one, no and three padding bytes; lookupswitch with no pair, npairs -1, the
\* key 5 twice, the keys 5 and 6, a pair cut short, and with one padding byte.
Pieces ==
    {<<0>>, <<16, 5>>, <<17, 1>>, <<IINC, 1>>, <<202>>, <<254>>,
     <<WIDE, 21, 0, 1>>, <<WIDE, 254>>, <<WIDE, 0>>, <<WIDE>>,
     TableSwitchBytes(2, <<16, 1, 2, 32, 48>>),
     TableSwitchBytes(2, <<16, 5, 3>>),
     TableSwitchBytes(2, <<16, 0, I32Max>>),
     TableSwitchBytes(2, <<16, 2, I32Min>>),
     TableSwitchBytes(2, <<16, 1, I32Min>>),
     TableSwitchBytes(1, <<16, 1, 2, 32, 48>>),
     TableSwitchBytes(0, <<16, 5, 3>>),
     TableSwitchBytes(3, <<16, 5, 3>>),
     LookupSwitchBytes(2, <<8, 0>>),
     LookupSwitchBytes(2, <<8, -1>>),
     LookupSwitchBytes(2, <<8, 2, 5, 20, 5, 30>>),
     LookupSwitchBytes(2, <<8, 2, 5, 20, 6, 30>>),
     LookupSwitchBytes(2, <<8, 1, 5>>),
     LookupSwitchBytes(1, <<8, 2, 5, 20, 5, 30>>)}

\* parse_instructions on a fresh cursor over any code array of the model.
InitCode ==
    /\ ClientInit
    /\ CmdInit
    /\ PeerInit
    /\ LinkIdle
    /\ AttrIdle
    /\ DecIdle
    /\ FnIdle
    /\ code \in {Flatten(ps) : ps \in SeqsUpTo(Pieces, MaxPieces)}
    /\ position = 0
    /\ instructions = <<>>
    /\ pstate = "running"

NextCode ==
    \/ ParseInstruction
    \/ ReturnInstructions

SpecCode == InitCode /\ [][NextCode]_vars

\* ------------------------------------------------------ descriptor parser

\* A descriptor is a Rust &str: a sequence of characters, each of which takes
\* len_utf8 bytes.  The parser mixes byte offsets (str::len, str::find, slices)
\* with character indices (chars().nth), so both are kept apart here.
MaxChars == 4
U8Max == 255
NonAscii == "U+00E9"
DescriptorChars == {"[", "L", ";", "J", "X", NonAscii}

len_utf8(c) == IF c = NonAscii THEN 2 ELSE 1

\* descriptor.len(): the bytes of the string, one per character and one more for
\* each two-byte character.
StrLen(s) == Len(s) + Cardinality({i \in 1 .. Len(s) : len_utf8(s[i]) = 2})

\* descriptor.chars().nth(n)
CharsNth(s, n) == IF n < Len(s) THEN <<s[n + 1]>> ELSE <<>>

\* The number of characters before byte offset b, when b is a char boundary.
CharIndex(s, b) == {k \in 0 .. Len(s) : StrLen(SubSeq(s, 1, k)) = b}

\* &descriptor[from..to]; a slice off a char boundary panics.
StrSlice(s, from, to) ==
    IF from <= to /\ CharIndex(s, from) # {} /\ CharIndex(s, to) # {}
    THEN <<SubSeq(s, (CHOOSE k \in CharIndex(s, from) : TRUE) + 1,
                     CHOOSE k \in CharIndex(s, to) : TRUE)>>
    ELSE <<>>

\* descriptor.find(c): the byte offset of the first c.
StrFind(s, c) ==
    IF \E i \in 1 .. Len(s) : s[i] = c
    THEN <<StrLen(SubSeq(s, 1, (CHOOSE i \in 1 .. Len(s) :
                                    /\ s[i] = c
                                    /\ \A j \in 1 .. i - 1 : s[j] # c) - 1))>>
    ELSE <<>>

Base(type) == [kind |-> "Base", type |-> type, class_name |-> <<>>]
Object(class_name) == [kind |-> "Object", type |-> "", class_name |-> class_name]

BaseTypes ==
    [c \in {"B", "C", "D", "F", "I", "J", "S", "Z", "V"} |->
        CASE c = "B" -> "SignedByte"
          [] c = "C" -> "Char"
          [] c = "D" -> "Double"
          [] c = "F" -> "Float"
          [] c = "I" -> "Integer"
          [] c = "J" -> "Long"
          [] c = "S" -> "Short"
          [] c = "Z" -> "Boolean"
          [] c = "V" -> "Void"]

UnexpectedEnd == [kind |-> "UnexpectedEnd", char |-> ""]
ClassTerminatorNotFound == [kind |-> "ClassTerminatorNotFound", char |-> ""]
TooManyArrayDimensions == [kind |-> "TooManyArrayDimensions", char |-> ""]
InvalidChar(c) == [kind |-> "InvalidChar", char |-> c]

DescOk(v, n) == [st |-> "Ok", val |-> <<v>>, err |-> <<>>, consumed |-> n]
DescErr(e) == [st |-> "Err", val |-> <<>>, err |-> <<e>>, consumed |-> 0]
DescPanic == [st |-> "Panic", val |-> <<>>, err |-> <<>>, consumed |-> 0]

parse_component_type(descriptor) ==
    IF descriptor = <<>> THEN DescErr(UnexpectedEnd)
    ELSE LET first == Head(descriptor)
             semicolon_pos == StrFind(descriptor, ";")
         IN  IF first = "L"
             THEN IF semicolon_pos = <<>> THEN DescErr(ClassTerminatorNotFound)
                  ELSE LET class_name == StrSlice(descriptor, 1, semicolon_pos[1])
                       IN  IF class_name = <<>> THEN DescPanic
                           ELSE DescOk(Object(class_name[1]), semicolon_pos[1] + 1)
             ELSE IF first \in DOMAIN BaseTypes
                  THEN DescOk(Base(BaseTypes[first]), 1)
                  ELSE DescErr(InvalidChar(first))

FieldDescriptor(component, dimension) ==
    [element_type |-> component, array_dimension |-> dimension]

\* The while loop over the leading '[' from start: it runs up to the first
\* position that is past the bytes of the string or holds no '[', and gives
\* the count and the position there; it returns the error when the count
\* passes u8::MAX on the way, and panics when the position is within the bytes
\* and past the characters.
LoopEnds(descriptor, start) ==
    {pos \in start .. StrLen(descriptor) :
        ~(pos < StrLen(descriptor) /\ CharsNth(descriptor, pos) = <<"[">>)}

CountDimensions(descriptor, start) ==
    LET pos == CHOOSE p \in LoopEnds(descriptor, start) :
                   \A q \in LoopEnds(descriptor, start) : p <= q
        dimension_count == pos - start
    IN  IF dimension_count > U8Max THEN DescErr(TooManyArrayDimensions)
        ELSE IF pos < StrLen(descriptor) /\ CharsNth(descriptor, pos) = <<>>
             THEN DescPanic
             ELSE DescOk(dimension_count, pos)

AfterDimensions(descriptor, counted) ==
    LET pos == counted.consumed
        dimension_count == counted.val[1]
        rest == StrSlice(descriptor, pos, StrLen(descriptor))
        component == parse_component_type(rest[1])
    IN  IF pos >= StrLen(descriptor) THEN DescErr(UnexpectedEnd)
        ELSE IF rest = <<>> THEN DescPanic
        ELSE IF component.st # "Ok" THEN component
        ELSE IF dimension_count > 0
             THEN DescOk(FieldDescriptor(component.val[1], <<dimension_count>>),
                         pos + component.consumed)
             ELSE DescOk(FieldDescriptor(component.val[1], <<>>),
                         pos + component.consumed)

parse_field_descriptor_at_position(descriptor, start) ==
    IF start >= StrLen(descriptor) THEN DescErr(UnexpectedEnd)
    ELSE LET counted == CountDimensions(descriptor, start)
         IN  IF counted.st # "Ok" THEN counted
             ELSE AfterDimensions(descriptor, counted)

parse_field_descriptor(descriptor) ==
    LET parsed == parse_field_descriptor_at_position(descriptor, 0)
    IN  IF parsed.st # "Ok" THEN parsed
        ELSE IF parsed.consumed # StrLen(descriptor)
             THEN LET c == CharsNth(descriptor, parsed.consumed)
                  IN  IF c = <<>> THEN DescPanic ELSE DescErr(InvalidChar(c[1]))
             ELSE parsed

Brackets(n) == [i \in 1 .. n |-> "["]

\* Every short string over the alphabet, and array descriptors around the
\* rank limit with nothing, a component, or more than a component after them.
Descriptors ==
    UNION {[1 .. n -> DescriptorChars] : n \in 0 .. MaxChars}
    \cup {Brackets(n) \o t : n \in {U8Max - 1, U8Max, U8Max + 1},
                             t \in {<<>>, <<"J">>, <<"J", "J">>, <<"L", "X", ";">>}}

ParseFieldDescriptor ==
    /\ args # <<>>
    /\ ret = <<>>
    /\ ret' = <<parse_field_descriptor(args[1])>>
    /\ UNCHANGED <<args, jdwpVars, linkVars, attrVars, decVars, codeVars>>

InitDesc ==
    /\ ClientInit
    /\ CmdInit
    /\ PeerInit
    /\ LinkIdle
    /\ AttrIdle
    /\ DecIdle
    /\ CodeIdle
    /\ args \in {<<d>> : d \in Descriptors}
    /\ ret = <<>>

NextDesc == ParseFieldDescriptor

SpecDesc == InitDesc /\ [][NextDesc]_vars

\* ------------------------------------------------- field constant values

\* The entries written in a constant pool a field's ConstantValue is looked up in
\* are at most this many.
MaxFieldEntries == 2

JavaLangString ==
    <<"j", "a", "v", "a", "/", "l", "a", "n", "g", "/", "S", "t", "r", "i", "n", "g">>

ConstantAttribute(type, value) == [kind |-> "ConstantValue", type |-> type, value |-> value]

ValueOk(v) == [st |-> "Ok", val |-> <<v>>, err |-> ""]
ValueErr(e) == [st |-> "Err", val |-> <<>>, err |-> e]

\* find_x(idx).ok_or(NotFoundInPool)? followed by Ok(ConstantAttribute::X(..)).
OkOr(type, found) ==
    IF IsSome(found) THEN ValueOk(ConstantAttribute(type, found[1]))
    ELSE IF found = <<>> THEN ValueErr("NotFoundInPool")
    ELSE [st |-> "Panic", val |-> <<>>, err |-> ""]

parse_field_constant_value(descriptor, idx, cp) ==
    LET element_type == descriptor.element_type
        field_type == element_type.type
    IN  IF element_type.kind = "Base"
        THEN CASE field_type = "SignedByte" -> OkOr("Byte", find_byte(cp, idx))
               [] field_type = "Char" -> OkOr("Char", find_char(cp, idx))
               [] field_type = "Double" -> OkOr("Double", find_double(cp, idx))
               [] field_type = "Float" -> OkOr("Float", find_float(cp, idx))
               [] field_type = "Integer" -> OkOr("Int", find_int(cp, idx))
               [] field_type = "Long" -> OkOr("Long", find_long(cp, idx))
               [] field_type = "Short" -> OkOr("Short", find_short(cp, idx))
               [] field_type = "Boolean" -> OkOr("Boolean", find_bool(cp, idx))
               [] field_type = "Void" -> ValueErr("VoidField")
        ELSE IF element_type.class_name = JavaLangString
             THEN OkOr("String", find_string_ref(cp, idx))
             ELSE ValueErr("ReferenceTypeNotString")

\* The arm of parse_fields for a ConstantValueIndex: the attribute pushed to the field.
FieldAttribute(descriptor, idx, cp, data) ==
    LET cvalue_result == parse_field_constant_value(descriptor, idx, cp)
    IN  CASE cvalue_result.st = "Ok" -> cvalue_result.val[1]
          [] cvalue_result.st = "Err" ->
                ErrorAttribute(<<"Could not parse constant value, error: ",
                                 cvalue_result.err>>, data)
          [] OTHER -> Panicked

Letter(c) == <<c>>
ClassDescriptor(name) == <<"L">> \o name \o <<";">>

\* The descriptors of the fields: every base type, String, another class, and
\* an array.
FieldDescriptors ==
    {Letter(c) : c \in DOMAIN BaseTypes}
    \cup {ClassDescriptor(JavaLangString), ClassDescriptor(<<"X">>), <<"[", "I">>}

\* The entries of the pools: those of EntryBytes but the Class, and the Integers 0
\* and 0x00018081.
FieldEntryBytes ==
    (EntryBytes \ {<<7, 0, 1>>}) \cup {<<3, 0, 0, 0, 0>>, <<3, 0, 1, 128, 129>>}

RECURSIVE SlotsOf(_)
SlotsOf(es) ==
    IF es = <<>> THEN 0
    ELSE (IF Head(es)[1] \in {5, 6} THEN 2 ELSE 1) + SlotsOf(Tail(es))

\* Well-formed pools: the count the entries written need, then the entries.
FieldPools ==
    {<<0, 1 + SlotsOf(es)>> \o Flatten(es) : es \in SeqsUpTo(FieldEntryBytes, MaxFieldEntries)}

\* One turn of the attribute loop of parse_fields on a ConstantValue attribute
\* of a field whose descriptor was parsed.
ParseFieldConstantValue ==
    /\ args # <<>>
    /\ ret = <<>>
    /\ LET pool == ReadConstantPool(args[1].buffer, 0)
           descriptor == parse_field_descriptor(args[1].descriptor)
           idx == args[1].value_cp_index
       IN  /\ pool.st = "Ok"
           /\ descriptor.st = "Ok"
           /\ ret' = <<FieldAttribute(descriptor.val[1], idx, pool.val[1],
                                      <<idx \div 256, idx % 256>>)>>
    /\ UNCHANGED <<args, jdwpVars, linkVars, attrVars, decVars, codeVars>>

InitField ==
    /\ ClientInit
    /\ CmdInit
    /\ PeerInit
    /\ LinkIdle
    /\ AttrIdle
    /\ DecIdle
    /\ CodeIdle
    /\ args \in {<<a>> : a \in [descriptor : FieldDescriptors, buffer : FieldPools,
                                value_cp_index : 0 .. MaxFieldEntries + 2]}
    /\ ret = <<>>

NextField == ParseFieldConstantValue

SpecField == InitField /\ [][NextField]_vars

\* ------------------------------------------------------------ binrw_enum

\* The bytes handed to an enum's read are at most this many.
MaxData == 2

\* The enums the repository declares with binrw_enum!: the integer type and
\* the variants with their values, in the order of the declaration.
Command ==
    [name |-> "Command", ty |-> 16,
     variants |-> <<<<"VirtualMachineVersion", 257>>, <<"VirtualMachineAllClasses", 259>>,
                    <<"VirtualMachineIDSizes", 263>>>>]
TypeTag ==
    [name |-> "TypeTag", ty |-> 8,
     variants |-> <<<<"Class", 1>>, <<"Interface", 2>>, <<"Array", 3>>>>]
TestSet ==
    [name |-> "TestSet", ty |-> 8,
     variants |-> <<<<"Value1", 1>>, <<"Value2", 2>>, <<"Value3", 3>>>>]
TestSet16 ==
    [name |-> "TestSet16", ty |-> 16,
     variants |-> <<<<"Value1", 1>>, <<"Value2", 2>>, <<"Value3", 3>>>>]
Enums == {Command, TypeTag, TestSet, TestSet16}

\* <$ty>::read_options and write_options under an endianness.
LittleEndian(bytes) == IF Len(bytes) = 1 THEN bytes[1] ELSE bytes[2] * 256 + bytes[1]
BigEndian(bytes) == IF Len(bytes) = 1 THEN bytes[1] ELSE bytes[1] * 256 + bytes[2]
FromBytes(endian, bytes) == IF endian = "big" THEN BigEndian(bytes) ELSE LittleEndian(bytes)
ToBytes(endian, ty, val) ==
    IF ty = 8 THEN <<val>>
    ELSE IF endian = "big" THEN <<val \div 256, val % 256>>
    ELSE <<val % 256, val \div 256>>

EnumResult(op, st, variant, bytes, pos, wrote) ==
    [op |-> op, st |-> st, variant |-> variant, bytes |-> bytes, pos |-> pos, wrote |-> wrote]

\* The arms `x if x == $value => Ok(Self::$variant)`, tried in order.
MatchingArms(enum, val) == {i \in 1 .. Len(enum.variants) : enum.variants[i][2] = val}
FirstArm(enum, val) ==
    CHOOSE i \in MatchingArms(enum, val) : \A j \in MatchingArms(enum, val) : i <= j

\* BinRead::read_options of the macro: the variant, or the error of the integer read, or
\* AssertFail at the position after the integer with the value in its message.
EnumRead(enum, data, endian, op, wrote) ==
    LET width == enum.ty \div 8
        val == FromBytes(endian, SubSeq(data, 1, width))
    IN  IF Len(data) < width THEN EnumResult(op, "Err", "", <<>>, 0, wrote)
        ELSE IF MatchingArms(enum, val) # {}
             THEN EnumResult(op, "Ok", enum.variants[FirstArm(enum, val)][1], <<>>, width, wrote)
             ELSE EnumResult(op, "AssertFail", "", <<val>>, width, wrote)

\* BinWrite::write_options of the macro: `match self { Self::$variant => $value }` written
\* as $ty.
EnumWrite(enum, i, endian) ==
    EnumResult("write", "Ok", "", ToBytes(endian, enum.ty, enum.variants[i][2]),
               enum.ty \div 8, enum.variants[i][1])

\* read_be on the bytes given.
ReadEnum ==
    /\ args # <<>>
    /\ ret = <<>>
    /\ ret' = <<EnumRead(args[1].enum, args[1].data, "big", "read", "")>>
    /\ UNCHANGED <<args, jdwpVars, linkVars, attrVars, decVars, codeVars>>

\* write_be of any variant into an empty buffer.
WriteEnum ==
    /\ args # <<>>
    /\ ret = <<>>
    /\ \E i \in 1 .. Len(args[1].enum.variants) : ret' = <<EnumWrite(args[1].enum, i, "big")>>
    /\ UNCHANGED <<args, jdwpVars, linkVars, attrVars, decVars, codeVars>>

\* read_be on the buffer that was written.
ReadEnumBack ==
    /\ ret # <<>>
    /\ ret[1].op = "write"
    /\ ret' = <<EnumRead(args[1].enum, ret[1].bytes, "big", "readback", ret[1].wrote)>>
    /\ UNCHANGED <<args, jdwpVars, linkVars, attrVars, decVars, codeVars>>

EnumBytes == {0, 1, 2, 3, 7, 99, 255}

InitEnum ==
    /\ ClientInit
    /\ CmdInit
    /\ PeerInit
    /\ LinkIdle
    /\ AttrIdle
    /\ DecIdle
    /\ CodeIdle
    /\ args \in {<<a>> : a \in [enum : Enums, data : SeqsUpTo(EnumBytes, MaxData)]}
    /\ ret = <<>>

NextEnum == ReadEnum \/ WriteEnum \/ ReadEnumBack

SpecEnum == InitEnum /\ [][NextEnum]_vars

\* ------------------------------------------------------------ properties

Started(c) == pc[c] # "idle"
Returned(c) == pc[c] = "done"

\* Position of x in the sequence s (0 when absent).
Pos(s, x) == IF \E i \in 1 .. Len(s) : s[i] = x
             THEN CHOOSE i \in 1 .. Len(s) : s[i] = x
             ELSE 0

Requests == {i \in 1 .. Len(wire) : wire[i].part # "handshake"}

\* C1: every send call that returns a reply packet returns one whose header id is the
\* id assigned to that call.
C1_ReplyCarriesOwnId ==
    \A c \in Calls : outcome[c] = "Ok" => reply[c][1].id = id[c]

\* C2: a send call that was pending when the reader task failed returns an error,
\* never a reply packet.
C2_ReaderFailureIsError ==
    \A c \in woken : Returned(c) => outcome[c] # "Ok"

\* C3: once a send call has returned, with any outcome, the id it registered is no
\* longer a key of pending_requests.
C3_NoStaleEntry ==
    \A c \in Calls : Returned(c) => id[c] \notin DOMAIN pending

\* C4: a request receives at most one delivery: of two reply packets with the same id
\* only the first reaches the waiter's channel, and that first one is what the call returns.
C4_AtMostOneDelivery ==
    \A c \in Calls :
        /\ Len(chan[c]) <= 1
        /\ outcome[c] = "Ok" => reply[c] = chan[c]

\* A second reply for the id of a call was read after the call had returned the first.
C4_Witness ==
    \E c \in late :
        outcome[c] = "Ok" /\ reply[c][1].id = id[c] /\ reply[c][1] # DefaultPacket

\* C5: a call whose deadline expired removes its sink and returns the timeout error;
\* a well-formed reply with its id that is read afterwards changes neither the map, nor
\* any channel, nor any call, and the reader keeps running.
C5_Step ==
    /\ \A c \in Calls :
        (pc[c] = "elapsed" /\ pc'[c] = "done") =>
            (outcome'[c] = "TimedOut" /\ reply'[c] = <<>> /\ id[c] \notin DOMAIN pending')
    /\ \A c \in Calls :
        (outcome[c] = "TimedOut" /\ c \notin late /\ c \in late') =>
            /\ reader = "Running" /\ reader' = "Running"
            /\ pending' = pending
            /\ chan' = chan
            /\ callVars' = callVars
    /\ \A c \in Calls : outcome[c] = "TimedOut" => outcome'[c] = "TimedOut"

C5_TimeoutThenLateReplyDropped == [][C5_Step]_vars

\* A reply for a timed-out call was read after its return, and the reader went on to
\* serve another request.
C5_Witness ==
    \E c \in late :
        /\ outcome[c] = "TimedOut"
        /\ chan[c] = <<>>
        /\ reader = "Running"
        /\ \E d \in Calls \ {c} :
            U32Less(id[c], id[d]) /\ outcome[d] = "Ok" /\ reply[d][1].id = id[d]

\* C6: what is written on the write half is grouped by request and the groups follow
\* the order in which the writer mutex was acquired; a flushed request is its header,
\* its body and its flush, next to each other.
C6_WritesSerialized ==
    /\ \A i \in Requests :
        /\ Pos(lockOrder, wire[i].id) > 0
        /\ i + 1 \in Requests =>
               Pos(lockOrder, wire[i].id) <= Pos(lockOrder, wire[i + 1].id)
    /\ \A i \in Requests :
        wire[i].part = "flush" =>
            /\ i - 2 \in Requests
            /\ wire[i - 2] = [id |-> wire[i].id, part |-> "hdr"]
            /\ wire[i - 1] = [id |-> wire[i].id, part |-> "body"]

\* Two calls were in the write path at the same time and both flushed, the one with the
\* later id first.
C6_Witness ==
    /\ Len(lockOrder) >= 2
    /\ \E c, d \in Calls :
        /\ U32Less(id[c], id[d])
        /\ Pos(lockOrder, id[d]) = 1
        /\ Pos(lockOrder, id[c]) = 2
    /\ Cardinality({i \in Requests : wire[i].part = "flush"}) >= 2

\* C7 as stated: every send call obtains an id strictly greater than every id assigned
\* before it (the calls are numbered in the order in which they obtain their ids).
C7_StrictlyIncreasing ==
    \A c, d \in Calls : (c < d /\ Started(d)) => U32Less(id[c], id[d])

\* C7, amended: each id is greater than the one assigned before it, except that the id
\* after 0xFFFFFFFF is 0; the ids of the calls are pairwise distinct, and no registration
\* replaces the sink of another call.
C7_IncreasingUntilWrap ==
    /\ \A c, d \in Calls :
        (c < d /\ Started(d)) =>
            /\ id[c] # id[d]
            /\ d = c + 1 =>
                \/ U32Less(id[c], id[d])
                \/ (id[c] = <<U16Mod - 1, U16Mod - 1>> /\ id[d] = <<0, 0>>)
    /\ closed = {}
    /\ \A k \in DOMAIN pending : id[pending[k]] = k

\* The counter wrapped between two calls.
C7_Witness ==
    \E c, d \in Calls :
        /\ d = c + 1
        /\ Started(d)
        /\ id[c] = <<U16Mod - 1, U16Mod - 1>>
        /\ id[d] = <<0, 0>>
        /\ id[c] \in DOMAIN pending

\* C8: whatever has been written for a request was written after the call registered its
\* sink: the owner of every id on the wire, and every holder of the writer mutex, has
\* inserted its sender, and a call that waits without reply, timeout or reader failure
\* still has its sink in the map.
C8_RegisteredBeforeWrite ==
    /\ \A i \in Requests : \E c \in registered : id[c] = wire[i].id
    /\ \A c \in Calls : pc[c] \in WriterPcs => c \in registered
    /\ \A c \in Calls :
        (pc[c] \in WriterPcs \cup {"waiting"} /\ chan[c] = <<>>) =>
            (id[c] \in DOMAIN pending /\ pending[id[c]] = c)

\* The reply to a request arrived while its call was still writing, and found the sink.
C8_Witness ==
    \E c \in Calls :
        /\ pc[c] \in {"hdr", "body"}
        /\ chan[c] # <<>>
        /\ chan[c][1].id = id[c]
        /\ reader = "Running"

\* do_handshake has compared what it read.
HandshakeRead == state \in {"Handshaken", "Ready", "Failed"} /\ newResult # IoError("WriteFailed")

IsAscii(s) == \A i \in 1 .. Len(s) : s[i] < 128

C10_HandshakeFirst ==
    (\/ reader # "NotSpawned"
     \/ state = "Ready"
     \/ \E c \in Calls : Started(c) \/ chan[c] # <<>>
     \/ Requests # {})
    =>
        /\ Len(wire) >= 1
        /\ wire[1].part = "handshake"
        /\ Requests = 2 .. Len(wire)
        /\ buffer = HANDSHAKE_STR
        /\ newResult = <<[kind |-> "Ok", detail |-> "JdwpClient"]>>

\* After the handshake a request was flushed and answered.
C10_Witness ==
    /\ reader = "Running"
    /\ \E i \in Requests : wire[i].part = "flush"
    /\ \E c \in Calls : outcome[c] = "Ok" /\ reply[c][1].id = id[c]

\* The widths of the IDSizes reply that call c decoded.
DecodedWidths(c) == ReadIdSizesReply(reply[c][1].data)[1]

\* C11: vm_get_all_classes on a client without stored sizes writes nothing for its
\* request, never registers a sink, and returns nothing but IdSizesUnknown.
C11_FailsBeforeIssue ==
    sizes = <<>> =>
        \A c \in Calls :
            cmd[c] = "AllClasses" =>
                /\ c \notin registered
                /\ \A i \in Requests : wire[i].id # id[c]
                /\ result[c] # <<>> => result[c][1].kind = "IdSizesUnknown"

\* C12: the stored sizes are widths of 1, 2, 4 or 8, and a get_id_sizes that decoded a
\* width outside that set returned IdSizesTruncated.
C12_OnlyIdWidthsStored ==
    /\ sizes # <<>> => \A k \in 1 .. 5 : FitsIdWidth(sizes[1][k])
    /\ \A c \in Calls :
        (/\ cmd[c] = "IDSizes"
         /\ result[c] # <<>>
         /\ outcome[c] = "Ok"
         /\ ReadIdSizesReply(reply[c][1].data) # <<>>
         /\ \E k \in 1 .. 5 : ~FitsIdWidth(DecodedWidths(c)[k]))
        => result[c][1].kind = "IdSizesTruncated"

\* C13: a command whose reply carries a nonzero error code returns that code as a
\* protocol error (Error::JdwpError).
C13_ErrorCodeReported ==
    \A c \in Calls :
        (/\ cmd[c] # "none"
         /\ result[c] # <<>>
         /\ outcome[c] = "Ok"
         /\ reply[c][1].error_code # 0)
        => result[c][1].kind = "JdwpError"

\* The step is the return of call c with a failure of its own: the timeout of its send,
\* or the return of its command after a timeout, a reply with a nonzero error code, or a
\* failure to decode the body.
PerRequestFailure(c) ==
    \/ pc[c] = "elapsed" /\ pc'[c] = "done"
    \/ /\ result[c] = <<>>
       /\ result'[c] # <<>>
       /\ \/ outcome[c] = "TimedOut"
          \/ /\ outcome[c] = "Ok"
             /\ reply[c][1] # DefaultPacket
             /\ reply[c][1].error_code # 0 \/ result'[c][1].kind # "Ok"

\* C14: the step in which a call fails on its own leaves the reader task as it is, keeps
\* the sink of every other call in the map, and changes nothing of any other call.
C14_Step ==
    \A c \in Calls :
        PerRequestFailure(c) =>
            /\ reader' = reader
            /\ closed' = closed
            /\ \A d \in Calls \ {c} :
                /\ \A k \in DOMAIN pending : pending[k] = d =>
                       (k \in DOMAIN pending' /\ pending'[k] = d)
                /\ chan'[d] = chan[d]
                /\ pc'[d] = pc[d]
                /\ outcome'[d] = outcome[d]
                /\ reply'[d] = reply[d]
                /\ result'[d] = result[d]

C14_FailureStaysLocal == [][C14_Step]_vars

\* One command failed to decode its reply, another timed out, while the reader runs.
C14_Witness ==
    /\ reader = "Running"
    /\ \E c, d \in Calls :
        /\ c # d
        /\ result[c] # <<>> /\ result[c][1].kind = "ParsingError"
        /\ result[d] # <<>> /\ result[d][1] = [kind |-> "IoError", detail |-> "TimedOut"]

\* C15: a reply header whose length field is below 11 ends the reader through its
\* failure branch (map drained, waiters woken): the task never ends by the panic of the
\* subtraction or of the allocation that follows it.
C15_ShortLengthIsParseFailure == reader # "Panicked"

\* C16: once the client value is dropped, the reader task ends and both halves of the
\* transport are released, whatever the peer does.
C16_DropReleases ==
    (state = "Dropped") ~> (WriteHalfReleased /\ ReadHalfReleased)

\* C17: the recursion of parse_class is never deeper than the number of raw classes, and
\* never runs away.
C17_DepthBounded ==
    /\ Len(stack) <= Len(raw_classes)
    /\ lstate # "overflow"

RawIndices == 1 .. Len(raw_classes)

\* The raw classes that are the first of their name in raw_classes.
FirstOfName == {k \in RawIndices : FindRaw(get_name(raw_classes[k])[1]) = k}

NameOf(k) == get_name(raw_classes[k])[1]

HasSuper(k) == raw_classes[k].super_class # 0

SuperNameOf(k) == ClassNameAt(raw_classes[k].constant_pool, raw_classes[k].super_class)

\* How many times JavaClass::new was called for the name.
BuiltCount(name) ==
    Cardinality({o \in 1 .. Len(objects) : objects[o].name = name /\ ~objects[o].placeholder})

\* The map after linking the raw classes K: one class per name of K and of the supers
\* K names, each built once, each super_class the map's entry, the names without raw
\* class name-only placeholders.
LinkedExactly(K) ==
    /\ \A k \in K : HasSuper(k) => SuperNameOf(k) # <<>>
    /\ DOMAIN classes = {NameOf(k) : k \in K}
                            \cup {SuperNameOf(k)[1] : k \in {j \in K : HasSuper(j)}}
    /\ \A n \in DOMAIN classes : objects[classes[n]].name = n /\ BuiltCount(n) <= 1
    /\ \A k \in K :
        IF HasSuper(k)
        THEN objects[classes[NameOf(k)]].super_class = classes[SuperNameOf(k)[1]]
        ELSE objects[classes[NameOf(k)]].super_class = 0
    /\ \A n \in DOMAIN classes :
        IF FindRaw(n) = 0
        THEN objects[classes[n]] = FromName(n)
        ELSE ~objects[classes[n]].placeholder

\* C18 as stated: after parse_classes the map holds exactly the names of the raw classes
\* and of their named super-classes, each class built once and linked to the map's entry
\* of its super-class.
C18_OnePerRawClass == lstate = "done" => LinkedExactly(RawIndices)

\* C18, amended: after parse_classes the map holds exactly the names of the raw classes
\* and of the super-classes named by the first raw class of each name; a later raw class
\* of a name already linked contributes nothing.
C18_OnePerFirstOfName ==
    lstate = "done" =>
        /\ {NameOf(k) : k \in RawIndices} = {NameOf(k) : k \in FirstOfName}
        /\ LinkedExactly(FirstOfName)

\* Two raw classes of one name were linked: the first names an absent super-class, the
\* second a different one.
C18_Witness ==
    /\ lstate = "done"
    /\ \E j, k \in RawIndices :
        /\ j < k
        /\ NameOf(j) = NameOf(k)
        /\ HasSuper(j) /\ HasSuper(k)
        /\ SuperNameOf(j) # SuperNameOf(k)
        /\ objects[classes[SuperNameOf(j)[1]]].placeholder

\* The four ways in which a raw attribute of the class cannot be resolved.
RecognizedNames == {"Code", "ConstantValue", "Deprecated", "SourceFile"}

NameNotUtf8(info) == CpFindUtf8(AttrPool, info.name_index) = <<>>

NameOfAttribute(info) == CpFindUtf8(AttrPool, info.name_index)[1]

UnknownName(info) == ~NameNotUtf8(info) /\ NameOfAttribute(info) \notin RecognizedNames

TruncatedPayload(info) ==
    /\ ~NameNotUtf8(info)
    /\ \/ NameOfAttribute(info) \in {"ConstantValue", "SourceFile"} /\ Len(info.data) < 2
       \/ NameOfAttribute(info) = "Code" /\ ReadCodeAttributeRaw(info.data).st = "Err"

SourceFileNotUtf8(info) ==
    /\ ~NameNotUtf8(info)
    /\ NameOfAttribute(info) = "SourceFile"
    /\ Len(info.data) >= 2
    /\ CpFindUtf8(AttrPool, U16At(info.data, 0)) = <<>>

Unresolvable(info) ==
    \/ UnknownName(info)
    \/ NameNotUtf8(info)
    \/ TruncatedPayload(info)
    \/ SourceFileNotUtf8(info)

\* C19: attribute resolution never aborts: a raw attribute with an unknown name, with a name
\* index that is not a UTF-8 pool entry, with a truncated payload, or a SourceFile whose
\* index is not a UTF-8 entry becomes an Error attribute that carries the raw bytes, at the
\* same position of the attribute list, and the attributes after it are resolved as well.
C19_ErrorsAttachedInPlace ==
    /\ astate # "panicked"
    /\ astate = "done" => Len(attributes) = Len(attribute_infos)
    /\ \A i \in 1 .. Len(attributes) :
        Unresolvable(attribute_infos[i]) =>
            /\ attributes[i].kind = "Error"
            /\ attributes[i].data = attribute_infos[i].data

\* The first four bytes of the buffer are not 0xCAFEBABE.
BadMagic(b) == Len(b) >= 4 /\ SubSeq(b, 1, 4) # JAVA_CLASS_FILE_MAGIC

\* The files the decoder reads to their last byte.
CompleteFiles ==
    {f \in Files : ReadJavaClassFile(f).st = "Ok" /\ ReadJavaClassFile(f).pos = Len(f)}

\* The buffer ends before the structure is complete: it is the beginning of a complete
\* file and shorter than it.
Truncated(b) == \E f \in CompleteFiles : Len(b) < Len(f) /\ b = SubSeq(f, 1, Len(b))

\* C20: decoding a buffer whose first four bytes are not 0xCAFEBABE, or that ends before
\* the structure is complete, fails with a parse error: no JavaClassFile is returned and
\* the decoder does not panic.
C20_BadBufferIsParseError ==
    (decoded # <<>> /\ (BadMagic(input) \/ Truncated(input))) => decoded[1].st = "Err"

\* The kind of entry each typed accessor wants.
Wanted ==
    [utf8 |-> "Utf8", class |-> "Class", int |-> "Integer", short |-> "Integer",
     byte |-> "Integer", char |-> "Integer", bool |-> "Integer", float |-> "Float",
     long |-> "Long", double |-> "Double", string_ref |-> "String"]

PoolDecoded == ret # <<>> /\ ret[1].st = "Ok"
PoolCount == U16At(args[1].buffer, 0)
PoolEntry(n) == ret[1].entries[1][n + 1]
IsWide(n) == n >= 1 /\ n < PoolCount /\ PoolEntry(n).tag \in {"Long", "Double"}

\* C21: a decoded constant pool of any size count keeps the two-slot rule: it has count
\* slots, slot 0 is unusable, a Long or Double at n leaves n+1 unusable and the next entry
\* is at n+2, every other slot up to count-1 holds an entry, and every typed accessor
\* returns None, without a panic, for index 0, a reserved slot, an index >= count or an
\* entry of another kind, also when a Long or Double is at count-1.
C21_TwoSlotRule ==
    PoolDecoded =>
        /\ Len(ret[1].entries[1]) = PoolCount
        /\ PoolCount > 0 => PoolEntry(0) = Invalid
        /\ \A n \in 1 .. PoolCount - 1 :
            /\ (IsWide(n) /\ n + 1 < PoolCount) => PoolEntry(n + 1) = Invalid
            /\ PoolEntry(n) = Invalid => IsWide(n - 1)
        /\ \A k \in DOMAIN Wanted :
            LET found == ret[1].found[1][k]
                idx == args[1].cp_index
            IN  /\ found # IndexPanic
                /\ IsSome(found) =>
                    /\ idx >= 1 /\ idx < PoolCount
                    /\ PoolEntry(idx).tag = Wanted[k]

\* A Long or Double is at the last index count-1, after another entry, and the accessors
\* were asked for the index after it.
C21_Witness ==
    /\ PoolDecoded
    /\ PoolCount >= 3
    /\ IsWide(PoolCount - 1)
    /\ PoolEntry(PoolCount - 2).tag = "Integer"
    /\ args[1].cp_index = PoolCount

\* The loop of parse_instructions is about to read the instruction at position.
AtInstruction == pstate = "running" /\ position < Len(code)

\* The instruction the step has pushed.
Pushed == instructions'[Len(instructions')]

\* C22: every tableswitch and lookupswitch that is decoded has its first operand, the i32
\* default, read at an offset of the code array that is a multiple of 4.
C22_SwitchOperandAligned ==
    \A i \in 1 .. Len(instructions) :
        instructions[i].kind \in {"Tableswitch", "Lookupswitch"} =>
            instructions[i].read_at % 4 = 0

\* The three i32 after the padding of the tableswitch at position.
TableHead == ReadI32s(code, position + 1 + PaddingBytes(position + 1), 3)

C23_Step ==
    (AtInstruction /\ code[position + 1] = TABLESWITCH /\ TableHead.st = "Ok") =>
        LET low == TableHead.val[1][2]
            high == TableHead.val[1][3]
        IN  /\ pstate' # "panicked"
            /\ high < low => Pushed.kind = "Tableswitch" /\ Pushed.offsets = <<>>
            /\ (high >= low /\ Pushed.kind = "Tableswitch") =>
                    /\ ~SubOverflows(high, low)
                    /\ Len(Pushed.offsets) - 1 = high - low

\* C23: for all i32 low and high a decoded tableswitch has max(0, high - low + 1) offsets,
\* the count is computed without overflow, and with high < low the decoder pushes a
\* tableswitch without offsets: it neither panics nor fails.
C23_TableRange == [][C23_Step]_vars

\* The pairs of the lookupswitch whose default was read at the offset at.
PairCount(at) == I32At(code, at + 5)
PairKey(at, j) == I32At(code, at + 1 + 8 * j)
PairOffset(at, j) == I32At(code, at + 5 + 8 * j)

\* C24: a decoded lookupswitch maps each distinct key to the offset of the last pair with
\* that key, so it has as many entries as there are distinct keys; with npairs zero or
\* negative the table is empty and the decoder does not fail.
C24_LaterPairWins ==
    /\ pstate = "panicked" => code[position + 1] # LOOKUPSWITCH
    /\ \A i \in 1 .. Len(instructions) :
        instructions[i].kind = "Lookupswitch" =>
            LET at == instructions[i].read_at
                js == 1 .. PairCount(at)
                matches == instructions[i].matches
            IN  /\ DOMAIN matches = {PairKey(at, j) : j \in js}
                /\ \A j \in js :
                    (\A k \in js : k > j => PairKey(at, k) # PairKey(at, j)) =>
                        matches[PairKey(at, j)] = PairOffset(at, j)

C25_Step ==
    (AtInstruction /\ code[position + 1] > LastOpcode) =>
        /\ pstate' = "running"
        /\ position' = position + 1
        /\ instructions' =
                Append(instructions, Unknown(<<"Invalid opcode: ", code[position + 1]>>))

\* C25: a byte that is not an opcode, where an instruction begins, becomes one Unknown
\* instruction with the text "Invalid opcode: " and the byte, takes that one byte, and
\* the next byte is read as an opcode; parse_instructions does not fail on it.
C25_UnknownOpcodeIsData == [][C25_Step]_vars

\* An Unknown for the byte 254 was pushed and another instruction after it.
C25_Witness ==
    \E i \in 1 .. Len(instructions) :
        /\ instructions[i] = Unknown(<<"Invalid opcode: ", 254>>)
        /\ i < Len(instructions)
        /\ instructions[i + 1].kind = "Instruction"

C30_Step ==
    /\ AtInstruction =>
        /\ pstate' = "running"
        /\ Len(instructions') = Len(instructions) + 1
        /\ position' > position
    /\ (pstate = "running" /\ position >= Len(code)) => pstate' = "done"

\* C30: parse_instructions terminates: every turn of its loop pushes exactly one
\* instruction and moves the stream position forward, and the loop ends as soon as the
\* position has reached or passed the end of the buffer.
C30_LoopAdvances == [][C30_Step]_vars

\* The descriptor a finished parse_field_descriptor call was given, its result,
\* and the grammar '['* ComponentType read off the characters.
Parsed == args # <<>> /\ ret # <<>>

Rank(s) ==
    CHOOSE n \in 0 .. Len(s) :
        /\ \A i \in 1 .. n : s[i] = "["
        /\ n < Len(s) => s[n + 1] # "["

IsComponent(s) ==
    \/ Len(s) = 1 /\ s[1] \in {"B", "C", "D", "F", "I", "J", "S", "Z", "V"}
    \/ /\ Len(s) >= 2
       /\ s[1] = "L"
       /\ s[Len(s)] = ";"
       /\ \A i \in 1 .. Len(s) - 1 : s[i] # ";"

InGrammar(s) ==
    /\ Rank(s) <= U8Max
    /\ IsComponent(SubSeq(s, Rank(s) + 1, Len(s)))

\* C26: parse_field_descriptor never panics, returns a descriptor exactly for
\* the strings '['* ComponentType with at most 255 '[' and nothing after the
\* component and an error for every other string, and the rank of a returned
\* descriptor is absent without '[' and the number of '[' otherwise.
C26_FieldDescriptorGrammar ==
    Parsed =>
        /\ ret[1].st # "Panic"
        /\ ret[1].st = "Ok" <=> InGrammar(args[1])
        /\ ret[1].st = "Ok" =>
              ret[1].val[1].array_dimension =
                  IF Rank(args[1]) = 0 THEN <<>> ELSE <<Rank(args[1])>>

\* The component of the descriptor of the field a finished promotion was for,
\* the decoded pool, the entry at the index, and what the promotion rule gives.
Promoted == args # <<>> /\ ret # <<>>
Component == SubSeq(args[1].descriptor, Rank(args[1].descriptor) + 1, Len(args[1].descriptor))
FieldPool == ReadConstantPool(args[1].buffer, 0).val[1]
KindAt(idx) == IF idx < Len(FieldPool) THEN FieldPool[idx + 1].tag ELSE "none"
IntegerAt(idx) == I32At(FieldPool[idx + 1].raw, 1)

Narrowed(c, n) ==
    CASE c = "B" -> [type |-> "Byte", value |-> n % 256]
      [] c = "C" -> [type |-> "Char", value |-> n % 256]
      [] c = "S" -> [type |-> "Short",
                     value |-> CHOOSE v \in -32768 .. 32767 : v % U16Mod = n % U16Mod]
      [] c = "I" -> [type |-> "Int", value |-> n]
      [] c = "Z" -> [type |-> "Boolean", value |-> n # 0]

FixedKinds ==
    [c \in {"F", "J", "D"} |-> CASE c = "F" -> "Float" [] c = "J" -> "Long" [] c = "D" -> "Double"]

\* <<>> where the rule gives an Error attribute, the type and value otherwise.
Promotion(idx) ==
    CASE Component \in {Letter(c) : c \in {"B", "C", "S", "I", "Z"}} ->
            IF KindAt(idx) = "Integer" THEN <<Narrowed(Component[1], IntegerAt(idx))>> ELSE <<>>
      [] Component \in {Letter(c) : c \in DOMAIN FixedKinds} ->
            IF KindAt(idx) = FixedKinds[Component[1]]
            THEN <<[type |-> FixedKinds[Component[1]], value |-> FieldPool[idx + 1].raw]>>
            ELSE <<>>
      [] Component = ClassDescriptor(JavaLangString) ->
            IF KindAt(idx) = "String" /\ KindAt(U16At(FieldPool[idx + 1].raw, 0)) = "Utf8"
            THEN <<[type |-> "String",
                    value |-> FieldPool[U16At(FieldPool[idx + 1].raw, 0) + 1].str]>>
            ELSE <<>>
      [] OTHER -> <<>>

\* C27: the ConstantValue of a field is promoted by the component of its
\* descriptor: B, S, C, I, Z from an Integer entry (S the low 16 bits as i16, B
\* the low 8 bits, C the character of the low byte, Z nonzero), F from a Float,
\* J from a Long, D from a Double, Ljava/lang/String; from a String entry that
\* points to a Utf8; everything else gives an Error attribute with the
\* attribute's data in place of the value.
C27_ConstantValuePromotion ==
    Promoted =>
        LET promotion == Promotion(args[1].value_cp_index)
        IN  IF promotion = <<>>
            THEN /\ ret[1].kind = "Error"
                 /\ ret[1].data = <<args[1].value_cp_index \div 256,
                                    args[1].value_cp_index % 256>>
            ELSE /\ ret[1].kind = "ConstantValue"
                 /\ ret[1].type = promotion[1].type
                 /\ ret[1].value = promotion[1].value

\* A short field promoted from the Integer 0x00018081, which does not fit in 16 bits.
C27_Witness ==
    /\ Promoted
    /\ Component = <<"S">>
    /\ KindAt(args[1].value_cp_index) = "Integer"
    /\ IntegerAt(args[1].value_cp_index) = 98433
    /\ ret[1].kind = "ConstantValue"
    /\ ret[1].value = -32639

\* The value a variant of the enum in hand was declared with, the declared
\* values, and the big-endian number of the bytes in hand.
EnumDone == args # <<>> /\ ret # <<>>
Declared == {args[1].enum.variants[i][2] : i \in 1 .. Len(args[1].enum.variants)}
ValueOf(variant) ==
    LET i == CHOOSE j \in 1 .. Len(args[1].enum.variants) :
                 args[1].enum.variants[j][1] = variant
    IN  args[1].enum.variants[i][2]
Encoded ==
    IF args[1].enum.ty = 8 THEN args[1].data[1]
    ELSE args[1].data[1] * 256 + args[1].data[2]

\* C28: for every enum declared with binrw_enum over u8 or u16, reading the
\* big-endian encoding of a declared value gives the variant of that value,
\* reading any other integer fails and gives no variant, writing a variant
\* gives the big-endian encoding of its value, and reading what was written
\* gives the variant back.
C28_EnumRoundTrip ==
    EnumDone =>
        CASE ret[1].op = "read" ->
                Len(args[1].data) >= args[1].enum.ty \div 8 =>
                    IF Encoded \in Declared
                    THEN /\ ret[1].st = "Ok"
                         /\ \E i \in 1 .. Len(args[1].enum.variants) :
                                args[1].enum.variants[i] = <<ret[1].variant, Encoded>>
                    ELSE ret[1].st \notin {"Ok", "Panic"} /\ ret[1].variant = ""
          [] ret[1].op = "write" ->
                ret[1].bytes =
                    IF args[1].enum.ty = 8 THEN <<ValueOf(ret[1].wrote)>>
                    ELSE <<ValueOf(ret[1].wrote) \div 256, ValueOf(ret[1].wrote) % 256>>
          [] ret[1].op = "readback" ->
                ret[1].st = "Ok" /\ ret[1].variant = ret[1].wrote

\* The u16 variant (1 << 8) | 3 written as 01 03 and read back.
C28_Witness ==
    /\ EnumDone
    /\ ret[1].op = "readback"
    /\ ret[1].wrote = "VirtualMachineAllClasses"
    /\ ret[1].variant = "VirtualMachineAllClasses"

\* C29: every send call that was issued returns: with the reply, with what the
\* failing reader sent, with the write's error, or through its deadline, also
\* when the reader task had ended before the call was made.
C29_SendReturns == \A c \in Calls : (pc[c] # "idle") ~> (pc[c] = "done")

\* A call that never was in the map when the reader failed and never got a
\* packet has returned through its deadline after the reader task ended.
C29_Witness ==
    /\ reader = "Stopped"
    /\ \E c \in Calls :
        /\ pc[c] = "done"
        /\ outcome[c] = "TimedOut"
        /\ c \notin woken
        /\ chan[c] = <<>>

=============================================================================
